------------------------------ MODULE Spec2Model ------------------------------
(***************************************************************************)
(* A model of the Blender add-on "Stacks" (sorecords/stacks).              *)
(*                                                                         *)
(* The add-on keeps a scene catalog of named operator stacks               *)
(* (Scene.stacks), and per object a list of slots that reference catalog   *)
(* entries by index (Object.stacks holds the enum the user picks,          *)
(* Object.stacks_c the integer backup).  STACKS_ExecuteStacks replays the  *)
(* stacks of the active object on a mesh regenerated from a hidden         *)
(* reference object.                                                       *)
(*                                                                         *)
(* Host behaviour the model relies on (Blender's Python API):              *)
(*   - an EnumProperty value is stored as the integer of its item; after   *)
(*     the enum is registered again a stored integer that matches no item  *)
(*     reads as the empty string, so int(slot.stack) raises ValueError;    *)
(*   - assigning an identifier that is not an item raises TypeError;       *)
(*   - assigning a property runs its update callback; an exception raised  *)
(*     inside an update callback is printed and dropped by the host;       *)
(*   - collection.remove(i) with i out of range removes nothing.           *)
(***************************************************************************)
EXTENDS Integers, Sequences, FiniteSets, TLC

VARIABLES
    scene,      \* bpy.context.scene: [stacks, stacks_active]
    objects,    \* bpy.data.objects: id -> object record
    meshes,     \* bpy.data.meshes: id -> mesh record
    context,    \* [object |-> active object id (0: none), mode |-> context.mode]
    host,       \* what the host does where the add-on cannot know it
    log,        \* the events of the last handler and of the one before it
    hist,       \* the last handler that ran, with the state it started from
    handlers,   \* bpy.app.handlers: the lists of registered functions
    render      \* the stacks.render operator: its instance and what it returned

vars == <<scene, objects, meshes, context, host, log, hist, handlers, render>>

\* The variables only the execution of stacks and the rendering read or write.
run_vars == <<meshes, host, log, handlers, render>>

-------------------------------------------------------------------------------
(* Bounds of the model *)

MaxStacks == 3
MaxSlots == 2
MaxOps == 7

-------------------------------------------------------------------------------
(* Objects *)

MaxObjects == 6
MaxMeshes == 8

ObjIds == 1..MaxObjects
MeshIds == 1..MaxMeshes

\* None, where the source holds an object or a mesh.
NoObject == 0

\* STACKS_PROP_ObStack: one entry of Object.stacks.  "stack" is the stored
\* integer of the enum item.  The name defaults to "Empty"; the class that
\* update_ob_enum registers in its place defaults to "Stack", and the model
\* keeps the first default for every new entry.
ObStack(index, stack) ==
    [name |-> "Empty", index |-> index, stack |-> stack]

\* A selection snapshot "m-m-m|[verts]-[edges]-[faces]" as STACKS_OT_SelectStore
\* writes it: the three index lists (the mode flags select nothing).
Snapshot(verts, edges, faces) ==
    [verts |-> verts, edges |-> edges, faces |-> faces]

\* STACKS_PROP_ObStackBackup: one entry of Object.stacks_c, with its defaults
\* (selection defaults to "f-f-t|[]-[]-[]").
ObStackBackup(index, stack_index) ==
    [index |-> index, enabled |-> TRUE, type |-> "STACK",
     stack_index |-> stack_index, repeat |-> 1,
     selection |-> Snapshot(<<>>, <<>>, <<>>)]

\* An object of bpy.data.objects with the add-on's properties at their defaults
\* (STACKS_PROP_ObCommon and the registrations of stacks_props.register).  A
\* name is the sequence of its parts, "Cube" + ".001" being <<"Cube", ".001">>.
NewObject(type, linked) ==
    [exists |-> TRUE, type |-> type, linked |-> linked,
     name |-> <<>>, data |-> NoObject, hide_select |-> FALSE, select |-> FALSE,
     stacks |-> <<>>, stacks_c |-> <<>>, stacks_active |-> 0,
     ob_reference |-> NoObject, ob_stacks |-> NoObject,
     live_update |-> TRUE, update_all |-> TRUE,
     show_reference |-> FALSE, edit_reference |-> FALSE]

Absent ==
    [NewObject("NONE", FALSE) EXCEPT !.exists = FALSE]

\* A mesh of bpy.data.meshes: how many vertices, edges and polygons it has and
\* which of them carry the select flag.
Mesh(nv, ne, nf) ==
    [exists |-> TRUE, size |-> [verts |-> nv, edges |-> ne, faces |-> nf],
     select |-> [verts |-> {}, edges |-> {}, faces |-> {}]]

NoMesh ==
    [Mesh(0, 0, 0) EXCEPT !.exists = FALSE]

Min(S) == CHOOSE x \in S : \A y \in S : x <= y

MinOf(a, b) == IF a <= b THEN a ELSE b

\* bpy.context.scene.objects filtered by ob.type == 'MESH', in collection order.
RECURSIVE SceneMeshFrom(_, _)
SceneMeshFrom(objs, o) ==
    IF o \notin ObjIds THEN <<>>
    ELSE (IF objs[o].exists /\ objs[o].linked /\ objs[o].type = "MESH"
          THEN <<o>> ELSE <<>>) \o SceneMeshFrom(objs, o + 1)

SceneMeshObjects(objs) == SceneMeshFrom(objs, 1)

\* zip(ob.stacks, ob.stacks_c): the positions both collections have.
Zip(ob) == 1..MinOf(Len(ob.stacks), Len(ob.stacks_c))

\* The (object, slot position) pairs in the order the nested loops of
\* update_project visit them.
RECURSIVE SlotPairsOf(_, _)
SlotPairsOf(objs, obs) ==
    IF obs = <<>> THEN <<>>
    ELSE [i \in Zip(objs[Head(obs)]) |-> <<Head(obs), i>>]
         \o SlotPairsOf(objs, Tail(obs))

-------------------------------------------------------------------------------
(* Scene catalog *)

\* STACKS_PROP_Stacks with its defaults.
NewStack ==
    [name |-> "Stack", index |-> 0, ops |-> <<>>, ops_active |-> 0]

\* EnumStackItems._get_enum_items: the items are the integers 0..len(stacks),
\* the last one being "None".
EnumItems(stacks) == 0..Len(stacks)

\* for i, ar in enumerate(props): ar.index = i
RECURSIVE RenumberFrom(_, _)
RenumberFrom(seq, i) ==
    IF seq = <<>> THEN <<>>
    ELSE <<[Head(seq) EXCEPT !.index = i]>> \o RenumberFrom(Tail(seq), i + 1)

Renumber(seq) == RenumberFrom(seq, 0)

\* bpy_prop_collection.remove(index), index counted from 0.
RemoveAt(seq, index) ==
    IF index < 0 \/ index >= Len(seq) THEN seq
    ELSE SubSeq(seq, 1, index) \o SubSeq(seq, index + 2, Len(seq))

-------------------------------------------------------------------------------
(* ob_stack_index_update, the first half of the update callback upd_obj *)

\* The name ob_stack_index_update gives a slot whose enum value is v.
SlotName(stacks, v) ==
    IF v >= Len(stacks) THEN "None" ELSE stacks[v + 1].name

\* The first loop: trg.stack_index = int(src.stack) over zip(stacks, bckups) of
\* context.object; int('') raises at the first stale enum value.
BackupCut(ob, stacks) ==
    LET bad == {i \in Zip(ob) : ob.stacks[i].stack \notin EnumItems(stacks)}
    IN  IF bad = {} THEN Len(ob.stacks) + Len(ob.stacks_c) + 1 ELSE Min(bad)

BackupFromEnum(ob, stacks) ==
    [ob EXCEPT !.stacks_c =
        [i \in DOMAIN ob.stacks_c |->
            IF i \in Zip(ob) /\ i < BackupCut(ob, stacks)
            THEN [ob.stacks_c[i] EXCEPT !.stack_index = ob.stacks[i].stack]
            ELSE ob.stacks_c[i]]]

\* The second loop: every slot of every mesh object of the scene is named after
\* its enum value, up to the first stale value (int('') raises there).
RECURSIVE NameSlotsFrom(_, _, _)
NameSlotsFrom(objs, pairs, stacks) ==
    IF pairs = <<>> THEN objs
    ELSE LET o == Head(pairs)[1]
             i == Head(pairs)[2]
             v == objs[o].stacks[i].stack
         IN  IF v \notin EnumItems(stacks) THEN objs
             ELSE NameSlotsFrom(
                    [objs EXCEPT ![o].stacks[i].name = SlotName(stacks, v)],
                    Tail(pairs), stacks)

RECURSIVE AllSlotPairsOf(_, _)
AllSlotPairsOf(objs, obs) ==
    IF obs = <<>> THEN <<>>
    ELSE [i \in 1..Len(objs[Head(obs)].stacks) |-> <<Head(obs), i>>]
         \o AllSlotPairsOf(objs, Tail(obs))

AllSlotPairs(objs) == AllSlotPairsOf(objs, SceneMeshObjects(objs))

ob_stack_index_update(objs, ctx, stacks) ==
    IF ctx = NoObject THEN objs
    ELSE LET ob == objs[ctx]
             o1 == [objs EXCEPT ![ctx] = BackupFromEnum(ob, stacks)]
         IN  IF BackupCut(ob, stacks) \in Zip(ob) THEN o1
             ELSE NameSlotsFrom(o1, AllSlotPairs(o1), stacks)

\* upd_obj: the update callback of STACKS_PROP_ObStack.stack.  After
\* ob_stack_index_update it calls upd_ops, which runs the stacks of the object
\* on a regenerated mesh and changes no slot, catalog entry or flag of a
\* stacked object by the time it returns.
upd_obj(objs, ctx, stacks) ==
    IF ctx # NoObject /\ objs[ctx].live_update
    THEN ob_stack_index_update(objs, ctx, stacks)
    ELSE objs

-------------------------------------------------------------------------------
(* EnumStackItems.update_project *)

\* The test of update_project that decides whether a backup index is shifted
\* after a removal: the chained comparison 0 > src.stack_index >= old_index.
RemoveShifts(stack_index, old_index) ==
    0 > stack_index /\ stack_index >= old_index

\* One pass of the loop body for slot i of object o, then the rest.  The result
\* is [objs, raised]: raised when trg.stack = f'{src.stack_index:03d}' names no
\* enum item (TypeError), which ends update_project and its callers.
RECURSIVE UpdateProjectFrom(_, _, _, _, _, _)
UpdateProjectFrom(objs, pairs, op, old_index, ctx, stacks) ==
    IF pairs = <<>> THEN [objs |-> objs, raised |-> FALSE]
    ELSE LET o == Head(pairs)[1]
             i == Head(pairs)[2]
             idx0 == objs[o].stacks_c[i].stack_index
             idx1 == IF op = "REMOVE" /\ RemoveShifts(idx0, old_index)
                     THEN idx0 - 1 ELSE idx0
             o1 == [objs EXCEPT ![o].stacks_c[i].stack_index = idx1]
         IN  IF idx1 \notin EnumItems(stacks)
             THEN [objs |-> o1, raised |-> TRUE]
             ELSE LET o2 == upd_obj([o1 EXCEPT ![o].stacks[i].stack = idx1],
                                    ctx, stacks)
                      idx2 == o2[o].stacks_c[i].stack_index
                      o3 == [o2 EXCEPT ![o].stacks[i].name =
                                IF idx2 # Len(stacks)
                                THEN stacks[idx2 + 1].name ELSE "None"]
                  IN  UpdateProjectFrom(o3, Tail(pairs), op, old_index, ctx, stacks)

update_project(objs, op, old_index, ctx, stacks) ==
    UpdateProjectFrom(objs, SlotPairsOf(objs, SceneMeshObjects(objs)),
                      op, old_index, ctx, stacks)

-------------------------------------------------------------------------------
(* Adding and removing scene stacks and object slots *)

\* EnumStackItems.project_stack_add: [scene, objs, raised]
project_stack_add(sc, objs, ctx) ==
    LET index == Len(sc.stacks)
        added == Append(sc.stacks,
                        [NewStack EXCEPT !.index = index])
        up == update_project(objs, "ADD", 0, ctx, added)
    IN  [scene |-> [sc EXCEPT !.stacks = added, !.stacks_active = index],
         objs |-> up.objs, raised |-> up.raised]

\* EnumStackItems.project_stack_remove: [scene, objs, raised]
project_stack_remove(sc, objs, ctx) ==
    LET old_index == sc.stacks_active
        left == Renumber(RemoveAt(sc.stacks, old_index))
        up == update_project(objs, "REMOVE", old_index, ctx, left)
    IN  [scene |-> [sc EXCEPT !.stacks = left,
                              !.stacks_active =
                                  IF old_index # 0 THEN old_index - 1 ELSE 0],
         objs |-> up.objs, raised |-> up.raised]

\* EnumStackItems.object_stack_add on context.object.  A new Object.stacks entry
\* reads the enum default, which update_ob_enum registered as "None".
object_stack_add(sc, objs, ctx) ==
    LET index == Len(objs[ctx].stacks)
    IN  [objs EXCEPT
            ![ctx].stacks = Append(@, ObStack(index, Len(sc.stacks))),
            ![ctx].stacks_c = Append(@, ObStackBackup(index, Len(sc.stacks))),
            ![ctx].stacks_active = index]

\* EnumStackItems.object_stack_remove on context.object: [objs, raised]
object_stack_remove(sc, objs, ctx) ==
    LET old_index == objs[ctx].stacks_active
        o1 == [objs EXCEPT
                 ![ctx].stacks = Renumber(RemoveAt(objs[ctx].stacks, old_index)),
                 ![ctx].stacks_c = Renumber(RemoveAt(objs[ctx].stacks_c, old_index)),
                 ![ctx].stacks_active =
                     IF old_index # 0 THEN old_index - 1 ELSE 0]
    IN  update_project(o1, "ADD", 0, ctx, sc.stacks)

-------------------------------------------------------------------------------
(* Numbers.  A Python int is an integer; a Python float is the exact        *)
(* fraction <<numerator, denominator>> in lowest terms, so the arithmetic  *)
(* of the interpolation is carried out without rounding; a vector is a     *)
(* triple of floats.                                                       *)

Abs(x) == IF x < 0 THEN -x ELSE x

RECURSIVE GCD(_, _)
GCD(a, b) == IF b = 0 THEN a ELSE GCD(b, a % b)

Frac(n, d) ==
    IF d < 0 THEN <<(-n) \div GCD(Abs(n), Abs(d)), (-d) \div GCD(Abs(n), Abs(d))>>
    ELSE <<n \div GCD(Abs(n), Abs(d)), d \div GCD(Abs(n), Abs(d))>>

\* float(k)
Float(k) == <<k, 1>>

FAdd(a, b) == Frac(a[1] * b[2] + b[1] * a[2], a[2] * b[2])
FSub(a, b) == Frac(a[1] * b[2] - b[1] * a[2], a[2] * b[2])
FMul(a, b) == Frac(a[1] * b[1], a[2] * b[2])
FDiv(a, b) == Frac(a[1] * b[2], a[2] * b[1])
FLeq(a, b) == a[1] * b[2] <= b[1] * a[2]

\* int(x): truncation towards zero.
int(x) == IF x[1] >= 0 THEN x[1] \div x[2] ELSE -((-x[1]) \div x[2])

Vec(x, y, z) == <<Float(x), Float(y), Float(z)>>

\* stacks_support_common.map_range
map_range(value, oldmin, oldmax, newmin, newmax) ==
    FAdd(FDiv(FMul(FSub(value, oldmin), FSub(newmax, newmin)),
              FSub(oldmax, oldmin)),
         newmin)

\* random.seed(seed); random.random(): the first draw of Python's generator
\* for seeds 0..11, to three decimals.
Uniform(seed) ==
    Frac(<<844, 134, 956, 238, 236, 623, 793, 324, 227, 463, 571, 452>>[seed + 1],
         1000)

-------------------------------------------------------------------------------
(* Operator entries (STACKS_PROP_Operator) and the scene catalog *)

\* STACKS_PROP_Operator with the defaults of its properties; of its ~150
\* parameters the model keeps those of the commands it knows.
Operator ==
    [name |-> "Operator", index |-> 0, enabled |-> TRUE,
     operator_type |-> "NONE",
     ops_select |-> "SKIP", ops_generate |-> "SKIP", ops_transform |-> "GRAB",
     interpolate |-> "STRAIGHT", interp_type |-> "CONSTANT",
     interp_ease |-> "INOUT", interp_ease_in |-> Float(0),
     interp_ease_out |-> Float(1), interp_seed |-> 1,
     value_min |-> Frac(1, 100), value_max |-> Frac(1, 2),
     value_min_int |-> 0, value_max_int |-> 0,
     value_vec_min |-> Vec(0, 0, 0), value_vec_max |-> Vec(0, 0, 0),
     scale_vec_min |-> Vec(1, 1, 1), scale_vec_max |-> Vec(1, 1, 1),
     value_sync |-> FALSE,
     gen_grab |-> Vec(0, 0, 0), gen_scale |-> Vec(1, 1, 1),
     gen_subd_cuts |-> 0, gen_subd_smooth |-> Float(0)]

\* The Python type a property of an operator entry reads as.
PropType ==
    [value_min |-> "float", value_max |-> "float",
     value_min_int |-> "int", value_max_int |-> "int",
     value_vec_min |-> "vector", value_vec_max |-> "vector",
     scale_vec_min |-> "vector", scale_vec_max |-> "vector",
     gen_grab |-> "vector", gen_scale |-> "vector",
     gen_subd_cuts |-> "int", gen_subd_smooth |-> "float"]

\* One entry of a propdict of INTERPOLATE: src: (min, max[, __syncable]).
Interp(src, min, max, syncable) ==
    [src |-> src, min |-> min, max |-> max, syncable |-> syncable]

\* stacks_constants.INTERPOLATE, for the commands of the model; a propdict is
\* the sequence of its items in insertion order.
INTERPOLATE ==
    [GENERATE |->
        [SUBDIVIDE |->
            <<Interp("gen_subd_cuts", "value_min_int", "value_max_int", FALSE),
              Interp("gen_subd_smooth", "value_min", "value_max", FALSE)>>],
     TRANSFORM |->
        [GRAB |-> <<Interp("gen_grab", "value_vec_min", "value_vec_max", FALSE)>>,
         SCALE |-> <<Interp("gen_scale", "scale_vec_min", "scale_vec_max", TRUE)>>]]

\* optype in INTERPOLATE.keys() and opfunc in INTERPOLATE[optype].keys()
Interpolated(optype, opfunc) ==
    /\ optype \in DOMAIN INTERPOLATE
    /\ opfunc \in DOMAIN INTERPOLATE[optype]

-------------------------------------------------------------------------------
(* STACKS_PropValues: the values of one interpolated property *)

\* map_range(x, 0, 1, val_min, val_max) of a scalar, truncated when the
\* minimum is an int.
Scaled(x, val_min, val_max, type) ==
    IF type = "int"
    THEN int(map_range(x, Float(0), Float(1), Float(val_min), Float(val_max)))
    ELSE map_range(x, Float(0), Float(1), val_min, val_max)

\* STACKS_PropValues.__interp_ease, the blend x of iteration ind.
Ease(v, ease_in, ease_out, interp_ease) ==
    IF interp_ease = "IN" \/ (interp_ease = "INOUT" /\ FLeq(v, Frac(1, 2)))
    THEN FAdd(FMul(FSub(Float(1), v), ease_in), FMul(v, ease_out))
    ELSE FAdd(FMul(v, ease_in), FMul(FSub(Float(1), v), ease_out))

EaseOf(op, ind, repeat) ==
    Ease(Frac(IF op.interpolate = "STRAIGHT" THEN ind ELSE repeat - ind, repeat),
         op.interp_ease_in, op.interp_ease_out, op.interp_ease)

\* The value both interpolations build from the blend of each channel.
Channels(x, y, z, val_min, val_max, type, synced) ==
    IF type # "vector" THEN Scaled(x, val_min, val_max, type)
    ELSE IF synced
    THEN <<Scaled(x, val_min[1], val_max[1], "float"),
           Scaled(x, val_min[1], val_max[1], "float"),
           Scaled(x, val_min[1], val_max[1], "float")>>
    ELSE <<Scaled(x, val_min[1], val_max[1], "float"),
           Scaled(y, val_min[2], val_max[2], "float"),
           Scaled(z, val_min[3], val_max[3], "float")>>

\* STACKS_PropValues.__interp_ease
interp_ease(op, props, ind, repeat) ==
    Channels(EaseOf(op, ind, repeat), EaseOf(op, ind, repeat),
             EaseOf(op, ind, repeat),
             op[props.min], op[props.max], PropType[props.min],
             op.value_sync /\ props.syncable)

\* STACKS_PropValues.__interp_random, the seed of the draw of a channel (0, 1,
\* 2): seed = interp_seed + ind, and seed += 1 after every draw.
random_seed(op, ind, channel) == op.interp_seed + ind + channel

\* The number of draws __interp_random makes for a property: three for a
\* vector whose channels are not synced, one otherwise.
RandomDraws(op, props) ==
    IF PropType[props.min] = "vector" /\ ~(op.value_sync /\ props.syncable)
    THEN 3 ELSE 1

\* STACKS_PropValues.__interp_random: one draw per channel.
interp_random(op, props, ind) ==
    Channels(Uniform(random_seed(op, ind, 0)), Uniform(random_seed(op, ind, 1)),
             Uniform(random_seed(op, ind, 2)),
             op[props.min], op[props.max], PropType[props.min],
             op.value_sync /\ props.syncable)

\* STACKS_PropValues.__call__, the values of the property that is item num
\* (counted from 1) of the propdict, for iterations i..repeat-1.
RECURSIVE PropValuesFrom(_, _, _, _, _)
PropValuesFrom(op, props, num, i, repeat) ==
    IF i >= repeat THEN <<>>
    ELSE <<IF op.interp_type = "RANDOM"
           THEN interp_random(op, props, i * num)
           ELSE interp_ease(op, props, i, repeat)>>
         \o PropValuesFrom(op, props, num, i + 1, repeat)

\* A STACKS_Value.  init is getattr(op, src): the number for a scalar, and for
\* a vector the host's wrapper, which reads the property whenever it is used,
\* so the snapshot of a vector is "alias".
STACKS_Value(op, props, num, repeat) ==
    [prop |-> props.src,
     init |-> IF PropType[props.src] = "vector" THEN "alias" ELSE op[props.src],
     values |-> PropValuesFrom(op, props, num, 0, repeat)]

\* The STACKS_Values of a propdict, in the order STACKS_Values.__iter__ yields
\* them (dir() sorts by name; the propdicts of the model are sorted already).
RECURSIVE STACKS_PropValues(_, _, _, _)
STACKS_PropValues(op, propdict, num, repeat) ==
    IF num > Len(propdict) THEN <<>>
    ELSE <<STACKS_Value(op, propdict[num], num, repeat)>>
         \o STACKS_PropValues(op, propdict, num + 1, repeat)

-------------------------------------------------------------------------------
(* The world a handler runs in.  A handler is a function from worlds to    *)
(* worlds: scene, objs, meshes and ctx are the host's data, host is what   *)
(* the host decides, log collects what the handler did, exc is the         *)
(* exception in flight ("none": none), depth the number of execution       *)
(* bodies that are active, ret the value the last function returned.       *)

World(sc, objs, ms, ctx, h) ==
    [scene |-> sc, objs |-> objs, meshes |-> ms, ctx |-> ctx, host |-> h,
     log |-> <<>>, exc |-> "none", depth |-> 0, ret |-> NoObject]

Raised(w) == w.exc # "none"

Raise(w, exc) == [w EXCEPT !.exc = exc]

Return(w, value) == [w EXCEPT !.ret = value]

\* One entry of the log: what happened, the active object it happened with,
\* how many execution bodies were active, the host command or message, and
\* the values that went with it.
Event(ev, ob, depth, cmd, args) ==
    [ev |-> ev, ob |-> ob, depth |-> depth, cmd |-> cmd, args |-> args]

Logged(w, ev, cmd, args) ==
    [w EXCEPT !.log = Append(w.log, Event(ev, w.ctx.object, w.depth, cmd, args))]

\* bpy.ops.stacks.warning('INVOKE_DEFAULT', msg=msg, type="ERROR")
Warning(w, msg) == Logged(w, "warning", msg, <<>>)

\* The host drops an exception that leaves an update callback.
Dropped(w) ==
    IF Raised(w) THEN [Logged(w, "dropped", w.exc, <<>>) EXCEPT !.exc = "none"]
    ELSE w

-------------------------------------------------------------------------------
(* stacks_support_common: modes *)

MODES ==
    [EDIT |-> "EDIT_MESH", OBJECT |-> "OBJECT", SCULPT |-> "SCULPT",
     VERTEX_PAINT |-> "PAINT_VERTEX", WEIGHT_PAINT |-> "PAINT_WEIGHT",
     TEXTURE_PAINT |-> "PAINT_TEXTURE"]

MODES_values == {MODES[k] : k \in DOMAIN MODES}

\* context.mode of the host after bpy.ops.object.mode_set(mode=...), by the
\* type of the active object.
ContextMode ==
    [MESH |-> MODES,
     ARMATURE |-> [OBJECT |-> "OBJECT", EDIT |-> "EDIT_ARMATURE", POSE |-> "POSE"]]

\* bpy.ops.object.mode_set(mode=mode); without an active object the command
\* cannot run.
mode_set(w, mode) ==
    IF w.ctx.object = NoObject THEN Raise(w, "RuntimeError")
    ELSE IF mode \in DOMAIN ContextMode[w.objs[w.ctx.object].type]
    THEN [w EXCEPT !.ctx.mode = ContextMode[w.objs[w.ctx.object].type][mode]]
    ELSE Raise(w, "TypeError")

\* setmode(context, mode); MODES[mode] raises KeyError.
setmode(w, mode) ==
    IF Raised(w) THEN w
    ELSE IF w.ctx.mode \in MODES_values
    THEN IF mode \notin DOMAIN MODES THEN Raise(w, "KeyError")
         ELSE IF w.ctx.mode # MODES[mode] THEN mode_set(w, mode) ELSE w
    ELSE IF w.ctx.mode # mode THEN mode_set(w, mode) ELSE w

\* getmode(context)
getmode(w) ==
    CASE w.ctx.mode = "EDIT_MESH" -> "EDIT"
      [] w.ctx.mode = "PAINT_VERTEX" -> "VERTEX_PAINT"
      [] w.ctx.mode = "PAINT_WEIGHT" -> "WEIGHT_PAINT"
      [] w.ctx.mode = "PAINT_TEXTURE" -> "TEXTURE_PAINT"
      [] OTHER -> w.ctx.mode

-------------------------------------------------------------------------------
(* stacks_support_common: collections, names, the active object *)

\* obj_col_link(src, trg): trg ends up in the collections src is in.
obj_col_link(w, src, trg) ==
    IF Raised(w) THEN w
    ELSE IF src = NoObject \/ trg = NoObject THEN Raise(w, "AttributeError")
    ELSE [w EXCEPT !.objs[trg].linked = w.objs[src].linked]

\* obj_unlink(trg)
obj_unlink(w, trg) ==
    IF Raised(w) THEN w
    ELSE IF trg = NoObject THEN Raise(w, "AttributeError")
    ELSE [w EXCEPT !.objs[trg].linked = FALSE]

\* obs_swap_names(ob1, ob2) (the names of the meshes are not modelled).
obs_swap_names(w, ob1, ob2) ==
    IF Raised(w) THEN w
    ELSE IF ob1 = NoObject \/ ob2 = NoObject THEN Raise(w, "AttributeError")
    ELSE [w EXCEPT !.objs[ob1].name = w.objs[ob2].name,
                   !.objs[ob2].name = w.objs[ob1].name]

\* set_active_obj(context, obj).  context.mode is the mode of the active
\* object, and an object that was not the active one is in object mode.
set_active_obj(w, obj) ==
    IF Raised(w) THEN w
    ELSE [w EXCEPT !.ctx.object = obj,
                   !.ctx.mode = IF obj = w.ctx.object THEN w.ctx.mode ELSE "OBJECT"]

\* obj_lock(ob, lock)
obj_lock(w, ob, lock) ==
    IF Raised(w) THEN w
    ELSE IF ob = NoObject THEN Raise(w, "AttributeError")
    ELSE [w EXCEPT !.objs[ob].hide_select = lock]

\* Object.select_set(state): the host refuses an object outside the view layer.
select_set(w, ob, state) ==
    IF Raised(w) THEN w
    ELSE IF ~w.objs[ob].linked THEN Raise(w, "RuntimeError")
    ELSE [w EXCEPT !.objs[ob].select = state]

\* bpy.data.meshes.remove(mesh)
meshes_remove(w, mesh) ==
    IF Raised(w) THEN w
    ELSE IF mesh = NoObject THEN Raise(w, "TypeError")
    ELSE [w EXCEPT !.meshes[mesh] = NoMesh]

\* bpy.data.objects.remove(ob): the host clears every pointer to the object.
RECURSIVE ClearPointersFrom(_, _, _)
ClearPointersFrom(objs, ob, o) ==
    IF o \notin ObjIds THEN objs
    ELSE ClearPointersFrom(
            [objs EXCEPT
                ![o].ob_reference = IF objs[o].ob_reference = ob
                                    THEN NoObject ELSE objs[o].ob_reference,
                ![o].ob_stacks = IF objs[o].ob_stacks = ob
                                 THEN NoObject ELSE objs[o].ob_stacks],
            ob, o + 1)

objects_remove(w, ob) ==
    IF Raised(w) THEN w
    ELSE IF ob = NoObject THEN Raise(w, "TypeError")
    ELSE [w EXCEPT
            !.objs = [ClearPointersFrom(w.objs, ob, 1) EXCEPT ![ob] = Absent],
            !.ctx.object = IF w.ctx.object = ob THEN NoObject ELSE w.ctx.object]

-------------------------------------------------------------------------------
(* STACKS_ObjectSetup: the stacked object and its reference *)

SUFFIX == "_trueops_ref"

\* The data blocks the host creates take the lowest free place of the model.
FreshMesh(ms) == Min({m \in MeshIds : ~ms[m].exists})

FreshObject(objs) == Min({o \in ObjIds : ~objs[o].exists})

\* bpy.data.meshes.new_from_object raises RuntimeError for an object type that
\* has no geometry.
HasGeometry(type) == type = "MESH"

\* __mesh_from_ref: the new mesh, or None (NoObject).
mesh_from_ref(w, ref) ==
    IF Raised(w) THEN w
    ELSE IF ~HasGeometry(w.objs[ref].type) THEN Return(w, NoObject)
    ELSE Return([w EXCEPT !.meshes[FreshMesh(w.meshes)] =
                                w.meshes[w.objs[ref].data]],
                FreshMesh(w.meshes))

\* __ob_copy, the loop over dir(ob): plain attributes are copied; of a
\* collection __iterable_copy adds one entry with default values and then
\* stops on the TypeError of getattr(collection, entry); stacks_common is a
\* read-only pointer to a property group and is not copied.
ObCopy(ob, name, mesh, none) ==
    [NewObject("MESH", FALSE) EXCEPT
        !.name = name, !.data = mesh,
        !.hide_select = ob.hide_select,
        !.stacks_active = ob.stacks_active,
        !.stacks = IF Len(ob.stacks) > 0 THEN <<ObStack(0, none)>> ELSE <<>>,
        !.stacks_c = IF Len(ob.stacks_c) > 0
                     THEN <<ObStackBackup(0, 0)>> ELSE <<>>]

\* __ob_copy, the two zip loops: trg.stack = src.stack raises TypeError for a
\* stale enum value; its update callback upd_obj finds live_update of
\* context.object cleared and returns.
ObCopySlots(w, ob, new) ==
    IF Len(w.objs[new].stacks) = 0 \/ Len(w.objs[new].stacks_c) = 0
    THEN Return(w, new)
    ELSE IF w.objs[ob].stacks[1].stack \notin EnumItems(w.scene.stacks)
    THEN Raise(w, "TypeError")
    ELSE Return([w EXCEPT
                    !.objs[new].stacks[1].stack = w.objs[ob].stacks[1].stack,
                    !.objs[new].stacks_c[1].stack_index =
                        w.objs[ob].stacks_c[1].stack_index],
                new)

ObCopyNew(w, ob, new, mesh) ==
    ObCopySlots(
        [w EXCEPT !.objs[new] = ObCopy(w.objs[ob], Append(w.objs[ob].name, ".001"),
                                       mesh, Len(w.scene.stacks))],
        ob, new)

ObCopyOf(w, ob) ==
    IF Raised(w) \/ w.ret = NoObject THEN w
    ELSE ObCopyNew(w, ob, FreshObject(w.objs), w.ret)

\* __ob_copy: the copy, or None.
ob_copy(w, ob) == ObCopyOf(mesh_from_ref(w, ob), ob)

\* __fix_ref_name
fix_ref_name(w, new, ob) ==
    IF Raised(w) THEN w
    ELSE [w EXCEPT !.objs[ob].name = Append(w.objs[new].name, SUFFIX)]

\* __set_select_and_active
set_select_and_active(w, new, ob) ==
    set_active_obj(select_set(select_set(w, ob, FALSE), new, TRUE), new)

\* __make_ref after __ob_copy returned new (the objects of the model have no
\* modifiers, constraints or animation data to copy).
MadeRef(w, new, ob) ==
    Return(
        set_select_and_active(
            fix_ref_name(
                obs_swap_names(
                    obj_col_link([w EXCEPT !.objs[new].ob_reference = ob], ob, new),
                    new, ob),
                new, ob),
            new, ob),
        new)

MakeRefOf(w, ob) ==
    IF Raised(w) \/ w.ret = NoObject THEN w ELSE MadeRef(w, w.ret, ob)

\* __make_ref
make_ref(w, ob) == MakeRefOf(ob_copy(w, ob), ob)

\* An object tied to its reference from one side only.
ob_ref_links_one_sided(w, ob, ref) ==
    [w EXCEPT !.objs[ob].ob_stacks = NoObject]

\* __ob_ref, the three assignments that tie the object and its reference.
ob_ref_links(w, ob, ref) ==
    [w EXCEPT !.objs[ob].ob_stacks = NoObject,
              !.objs[ref].ob_stacks = ob,
              !.objs[ref].ob_reference = NoObject]

ObRefLinked(w) ==
    IF Raised(w) \/ w.ret = NoObject THEN w
    ELSE ob_ref_links(w, w.ret, w.objs[w.ret].ob_reference)

\* __ob_ref: the stacked object (its reference is its ob_reference), or None.
ObjectAndReference(w) ==
    IF Raised(w) THEN w
    ELSE ObRefLinked(IF w.objs[w.ctx.object].ob_reference = NoObject
                     THEN make_ref(w, w.ctx.object)
                     ELSE Return(w, w.ctx.object))

MeshCopied(w, ob) ==
    IF Raised(w) \/ w.ret = NoObject THEN w
    ELSE Return(Logged(meshes_remove([w EXCEPT !.objs[ob].data = w.ret],
                                     w.objs[ob].data),
                       "regenerate", "", <<>>),
                ob)

\* __mesh_copy
mesh_copy(w, ob, ref) == MeshCopied(mesh_from_ref(w, ref), ob)

\* ref.name in sc.objects: the host keeps the names of bpy.data.objects
\* unique, so the object of that name in the scene, if any, is ref.
InScene(w, ref) == w.objs[ref].exists /\ w.objs[ref].linked

\* __show_ref
show_ref(w, ob, ref) ==
    IF Raised(w) THEN w
    ELSE IF w.objs[ob].show_reference
    THEN obj_lock(obj_col_link(w, ob, ref), ref, TRUE)
    ELSE IF InScene(w, ref) THEN obj_unlink(w, ref)
    ELSE w

ObRefMesh(w) ==
    IF Raised(w) \/ w.ret = NoObject THEN w
    ELSE mesh_copy(w, w.ret, w.objs[w.ret].ob_reference)

ObRefShown(w) ==
    IF Raised(w) \/ w.ret = NoObject THEN w
    ELSE show_ref(w, w.ret, w.objs[w.ret].ob_reference)

\* ob_ref: the stacked object with its mesh regenerated, or None.
ob_ref(w) == ObRefShown(ObRefMesh(ObjectAndReference(setmode(w, "OBJECT"))))

-------------------------------------------------------------------------------
(* stacks_exe: the executable units and the host's mesh commands *)

\* A bpy.ops.mesh / bpy.ops.transform command with its parameter values.  The
\* host raises RuntimeError when the command cannot run: outside edit mode of
\* a mesh, or on geometry it rejects (host.faulty).
HostCmd(w, cmd, args) ==
    IF Raised(w) THEN w
    ELSE IF w.ctx.mode # "EDIT_MESH" \/ cmd \in w.host.faulty
    THEN Raise(Logged(w, "failed", cmd, args), "RuntimeError")
    ELSE Logged(w, "cmd", cmd, args)

NoneSelected == [verts |-> {}, edges |-> {}, faces |-> {}]

\* bpy.ops.mesh.select_all(action='DESELECT')
mesh_select_all(w) ==
    IF Raised(w) THEN w
    ELSE IF w.ctx.mode # "EDIT_MESH"
    THEN Raise(Logged(w, "failed", "mesh.select_all", <<>>), "RuntimeError")
    ELSE [Logged(w, "cmd", "mesh.select_all", <<>>) EXCEPT
            !.meshes[w.objs[w.ctx.object].data].select = NoneSelected]

\* How many leading indices of a list are in range of a collection of n
\* elements: the loop of SelectSet stops at the first IndexError.
RECURSIVE Leading(_, _)
Leading(seq, n) ==
    IF seq = <<>> THEN 0
    ELSE IF Head(seq) >= n THEN 0
    ELSE 1 + Leading(Tail(seq), n)

Elements(seq, k) == {seq[i] : i \in 1..k}

\* SelectSet.operator, the try block: the select flags set before the first
\* IndexError stay set.
SelectFlags(mesh, verts, edges, faces, kv, ke, kf) ==
    [mesh EXCEPT
        !.select.verts = mesh.select.verts \cup Elements(verts, kv),
        !.select.edges = mesh.select.edges \cup
            (IF kv = Len(verts) THEN Elements(edges, ke) ELSE {}),
        !.select.faces = mesh.select.faces \cup
            (IF kv = Len(verts) /\ ke = Len(edges)
             THEN Elements(faces, kf) ELSE {})]

SelectTried(w, mesh, sel, kv, ke, kf) ==
    IF kv = Len(sel.verts) /\ ke = Len(sel.edges) /\ kf = Len(sel.faces)
    THEN [w EXCEPT !.meshes[mesh] =
            SelectFlags(w.meshes[mesh], sel.verts, sel.edges, sel.faces, kv, ke, kf)]
    ELSE Warning(
            [w EXCEPT !.meshes[mesh] =
                SelectFlags(w.meshes[mesh], sel.verts, sel.edges, sel.faces,
                            kv, ke, kf)],
            "Can not set selection. The stored vertex data indices are out of range")

\* SelectSet.operator after setmode(context, 'OBJECT'): int('') raises
\* ValueError for an empty list of the snapshot, outside the try block.
SelectParsed(w, sel) ==
    IF Raised(w) THEN w
    ELSE IF sel.verts = <<>> \/ sel.edges = <<>> \/ sel.faces = <<>>
    THEN Raise(w, "ValueError")
    ELSE SelectTried(Logged(w, "select", "", <<>>),
                     w.objs[w.ctx.object].data, sel,
                     Leading(sel.verts, w.meshes[w.objs[w.ctx.object].data].size.verts),
                     Leading(sel.edges, w.meshes[w.objs[w.ctx.object].data].size.edges),
                     Leading(sel.faces, w.meshes[w.objs[w.ctx.object].data].size.faces))

\* SelectSet.operator, for the slot the unit was built from.
SelectSet(w, fn) ==
    SelectParsed(setmode(mesh_select_all(w), "OBJECT"),
                 w.objs[fn.ob].stacks_c[fn.slot].selection)

\* SelectNonmanifold.operator: try ... except RuntimeError
SelectNonmanifoldTried(w) ==
    IF w.exc = "RuntimeError"
    THEN Warning([w EXCEPT !.exc = "none"], "RuntimeError")
    ELSE w

SelectNonmanifold(w) ==
    IF Raised(w) THEN w
    ELSE SelectNonmanifoldTried(HostCmd(w, "mesh.select_non_manifold", <<>>))

\* The operator() of the classes of stacks_exe the model knows, for the
\* operator entry op; each reads its parameters from the entry when called.
Operate(w, class, op) ==
    CASE class = "SelectNonmanifold" -> SelectNonmanifold(w)
      [] class = "GenerateSubdivide" ->
            HostCmd(w, "mesh.subdivide",
                    <<Float(op.gen_subd_cuts), op.gen_subd_smooth>>)
      [] class = "TransformGrab" ->
            HostCmd(w, "transform.translate", <<op.gen_grab>>)
      [] class = "TransformScale" ->
            HostCmd(w, "transform.resize", <<op.gen_scale>>)
      [] OTHER -> Raise(w, "AttributeError")

\* STACKS_Op.__call__, after setmode(self.context, 'EDIT')
Operated(w, fn) ==
    IF Raised(w) THEN w
    ELSE IF fn.stacktype = "SELECT" THEN SelectSet(w, fn)
    ELSE Operate(w, fn.class, w.scene.stacks[fn.stack_index + 1].ops[fn.op])

\* STACKS_SingleOperator.__call__
Call(w, fn) == Operated(setmode(w, "EDIT"), fn)

-------------------------------------------------------------------------------
(* STACKS_Stack, STACKS_StackSelect, STACKS_SingleOperator: the assembly *)

\* STACKS_Stack.__opfunc
opfunc(op) ==
    CASE op.operator_type = "SELECT" -> op.ops_select
      [] op.operator_type = "GENERATE" -> op.ops_generate
      [] op.operator_type = "TRANSFORM" -> op.ops_transform
      [] OTHER -> "SKIP"

\* f'{optype.capitalize()}{opfunc.capitalize()}', the class of stacks_exe
ClassName(optype, func) ==
    CASE optype = "SELECT" /\ func = "NONMANIFOLD" -> "SelectNonmanifold"
      [] optype = "GENERATE" /\ func = "SUBDIVIDE" -> "GenerateSubdivide"
      [] optype = "TRANSFORM" /\ func = "GRAB" -> "TransformGrab"
      [] optype = "TRANSFORM" /\ func = "SCALE" -> "TransformScale"
      [] OTHER -> "Unknown"

\* STACKS_Stack.__opname
opname(optype, func) ==
    CASE optype = "NONE" \/ func = "SKIP" -> "None"
      [] optype = "SELECT" /\ func = "NONMANIFOLD" -> "Select Nonmanifold"
      [] optype = "GENERATE" /\ func = "SUBDIVIDE" -> "Generate Subdivide"
      [] optype = "TRANSFORM" /\ func = "GRAB" -> "Transform Grab"
      [] optype = "TRANSFORM" /\ func = "SCALE" -> "Transform Scale"
      [] OTHER -> "Unknown"

\* STACKS_SingleOperator.__repeatable
repeatable(repeat, interptype, optype, func) ==
    /\ repeat > 1
    /\ interptype # "CONSTANT"
    /\ Interpolated(optype, func)

\* STACKS_SingleOperator for entry k of scene stack stack_index, run for slot.
STACKS_SingleOperator(op, k, stack_index, slot, optype, func) ==
    [stacktype |-> "STACK", ob |-> NoObject, slot |-> 0,
     stack_index |-> stack_index, op |-> k,
     class |-> ClassName(optype, func),
     repeatable |-> repeatable(slot.repeat, op.interp_type, optype, func),
     values |-> IF repeatable(slot.repeat, op.interp_type, optype, func)
                THEN STACKS_PropValues(op, INTERPOLATE[optype][func], 1, slot.repeat)
                ELSE <<>>]

\* STACKS_Stack.__funcs: the units of the enabled entries from entry k on.
RECURSIVE FuncsFrom(_, _, _, _)
FuncsFrom(ops, k, stack_index, slot) ==
    IF k > Len(ops) THEN <<>>
    ELSE (IF ~ops[k].enabled \/ ops[k].operator_type = "NONE"
             \/ opfunc(ops[k]) = "SKIP"
          THEN <<>>
          ELSE <<STACKS_SingleOperator(ops[k], k, stack_index, slot,
                                       ops[k].operator_type, opfunc(ops[k]))>>)
         \o FuncsFrom(ops, k + 1, stack_index, slot)

\* STACKS_Stack.__funcs: op.name = self.__opname(optype, opfunc) for every entry.
RECURSIVE NamedFrom(_)
NamedFrom(ops) ==
    IF ops = <<>> THEN <<>>
    ELSE <<[Head(ops) EXCEPT !.name = opname(Head(ops).operator_type,
                                            opfunc(Head(ops)))]>>
         \o NamedFrom(Tail(ops))

\* STACKS_Stack
STACKS_Stack(ops, slot) ==
    [type |-> "STACK", repeat |-> slot.repeat,
     funcs |-> FuncsFrom(ops, 1, slot.stack_index, slot)]

\* STACKS_StackSelect for slot i of object ob: one unit, never repeatable.
STACKS_StackSelect(ob, i, slot) ==
    [type |-> "SELECT", repeat |-> slot.repeat,
     funcs |-> <<[stacktype |-> "SELECT", ob |-> ob, slot |-> i,
                  stack_index |-> 0, op |-> 0, class |-> "SelectSet",
                  repeatable |-> FALSE, values |-> <<>>]>>]

\* STACKS_ExecuteStacks._stacks: the units of the enabled slots of ob from
\* slot i on are appended to units and returned.
RECURSIVE StacksFrom(_, _, _, _)
StacksFrom(w, ob, i, units) ==
    IF Raised(w) THEN w
    ELSE IF i > Len(w.objs[ob].stacks_c) THEN Return(w, units)
    ELSE IF ~w.objs[ob].stacks_c[i].enabled THEN StacksFrom(w, ob, i + 1, units)
    ELSE IF w.objs[ob].stacks_c[i].type = "SELECT"
    THEN StacksFrom(w, ob, i + 1,
            Append(units, STACKS_StackSelect(ob, i, w.objs[ob].stacks_c[i])))
    ELSE IF Len(w.scene.stacks) <= w.objs[ob].stacks_c[i].stack_index
    THEN StacksFrom(w, ob, i + 1, units)
    ELSE StacksFrom(
            [w EXCEPT !.scene.stacks[w.objs[ob].stacks_c[i].stack_index + 1].ops =
                        NamedFrom(@)],
            ob, i + 1,
            Append(units,
                   STACKS_Stack(
                       w.scene.stacks[w.objs[ob].stacks_c[i].stack_index + 1].ops,
                       w.objs[ob].stacks_c[i])))

stacks_of(w, ob) == StacksFrom(w, ob, 1, <<>>)

-------------------------------------------------------------------------------
(* STACKS_ExecuteStacks and the update callback upd_ops *)

\* The depth at which Python gives up a recursion, counted in execution
\* bodies.
RecursionLimit == 3

\* The value the host stores for a property: IntProperty and FloatProperty
\* with min=0 clamp.
Stored(prop, value) ==
    CASE prop = "gen_subd_cuts" -> IF value < 0 THEN 0 ELSE value
      [] prop = "gen_subd_smooth" -> IF value[1] < 0 THEN Float(0) ELSE value
      [] OTHER -> value

\* The value of a property as the log shows it (an int as the float of it).
Shown(prop, value) ==
    IF PropType[prop] = "int" THEN Float(value) ELSE value

\* The live_update setter of STACKS_ExecuteStacks: the flag of context.object.
live_update_set(w, enabled) ==
    IF Raised(w) THEN w
    ELSE [w EXCEPT !.objs[w.ctx.object].live_update = enabled]

\* A body that passes its guard and leaves live_update as it found it.
EnteredKeepsFlag(w) ==
    [Logged(w, "enter", "", <<>>) EXCEPT !.depth = w.depth + 1]

\* STACKS_ExecuteStacks.__init__ has passed its guard for context.object.
Entered(w) ==
    [Logged(w, "enter", "", <<>>) EXCEPT
        !.objs[w.ctx.object].live_update = FALSE,
        !.depth = w.depth + 1]

\* STACKS_ExecuteStacks.__init__ returns, or an exception leaves it.
Left(w) ==
    [Logged(w, IF Raised(w) THEN "raise" ELSE "exit", "", <<>>) EXCEPT
        !.depth = w.depth - 1]

\* bpy.ops.object.select_all(action="DESELECT")
RECURSIVE DeselectFrom(_, _)
DeselectFrom(objs, o) ==
    IF o \notin ObjIds THEN objs
    ELSE DeselectFrom([objs EXCEPT ![o].select = FALSE], o + 1)

object_select_all(w) ==
    IF Raised(w) THEN w
    ELSE IF w.ctx.mode # "OBJECT" THEN Raise(w, "RuntimeError")
    ELSE [w EXCEPT !.objs = DeselectFrom(w.objs, 1)]

\* [stack.stack_index for stack in ob.stacks_c]
StackIndices(ob) == {ob.stacks_c[i].stack_index : i \in DOMAIN ob.stacks_c}

\* context.selected_objects
Selected(w) ==
    {o \in ObjIds : w.objs[o].exists /\ w.objs[o].linked /\ w.objs[o].select}

\* context.view_layer.objects
ViewLayer(w) == {o \in ObjIds : w.objs[o].exists /\ w.objs[o].linked}

\* for o in selected: o.select_set(True)
RECURSIVE Reselect(_, _, _)
Reselect(w, selected, o) ==
    IF Raised(w) \/ o \notin ObjIds THEN w
    ELSE Reselect(IF o \in selected THEN select_set(w, o, TRUE) ELSE w,
                  selected, o + 1)

RECURSIVE Exec(_)
RECURSIVE upd_ops(_)
RECURSIVE setattr_op(_, _, _, _, _)
RECURSIVE WriteValues(_, _, _, _)
RECURSIVE ExecuteFrom(_, _, _, _, _)
RECURSIVE RestoreValues(_, _, _)
RECURSIVE RestoreFrom(_, _, _, _)
RECURSIVE UpdateOthers(_, _, _, _, _)

\* setattr(f.op, prop, value) for entry k of scene stack stack_index: the host
\* stores the value and runs the update callback upd_ops.
setattr_op(w, stack_index, k, prop, value) ==
    IF Raised(w) THEN w
    ELSE Dropped(upd_ops(
            Logged([w EXCEPT !.scene.stacks[stack_index + 1].ops[k][prop] =
                                Stored(prop, value)],
                   "write", prop,
                   <<Float(stack_index), Float(k), Shown(prop, Stored(prop, value))>>)))

\* execute: for v in f.values: setattr(f.op, v.prop, v.values[i])
WriteValues(w, fn, i, j) ==
    IF Raised(w) \/ j > Len(fn.values) THEN w
    ELSE WriteValues(
            setattr_op(w, fn.stack_index, fn.op, fn.values[j].prop,
                       fn.values[j].values[i + 1]),
            fn, i, j + 1)

\* execute reaches f(): the log shows which unit is called and the values the
\* parameters of its entry hold at that moment.
Called(w, fn) ==
    IF Raised(w) THEN w
    ELSE IF fn.stacktype = "SELECT" THEN Logged(w, "call", "select", <<>>)
    ELSE Logged(w, "call", IF fn.repeatable THEN "repeatable" ELSE "plain",
                <<Float(fn.stack_index), Float(fn.op),
                  Float(w.scene.stacks[fn.stack_index + 1].ops[fn.op].gen_subd_cuts),
                  w.scene.stacks[fn.stack_index + 1].ops[fn.op].gen_subd_smooth,
                  w.scene.stacks[fn.stack_index + 1].ops[fn.op].gen_grab,
                  w.scene.stacks[fn.stack_index + 1].ops[fn.op].gen_scale>>)

\* execute: the three nested loops, from unit f of iteration i of stack s on.
ExecuteFrom(w, stacks, s, i, f) ==
    IF Raised(w) \/ s > Len(stacks) THEN w
    ELSE IF i >= stacks[s].repeat THEN ExecuteFrom(w, stacks, s + 1, 0, 1)
    ELSE IF f > Len(stacks[s].funcs) THEN ExecuteFrom(w, stacks, s, i + 1, 1)
    ELSE ExecuteFrom(
            Call(Called(IF stacks[s].funcs[f].repeatable
                        THEN WriteValues(w, stacks[s].funcs[f], i, 1) ELSE w,
                        stacks[s].funcs[f]),
                 stacks[s].funcs[f]),
            stacks, s, i, f + 1)

\* STACKS_ExecuteStacks.execute
execute(w, stacks) == ExecuteFrom(w, stacks, 1, 0, 1)

\* restore: for v in f.values: setattr(f.op, v.prop, v.init).  The init of a
\* vector is the host's wrapper of the property, which yields the value the
\* property has now.
RestoreValues(w, fn, j) ==
    IF Raised(w) \/ j > Len(fn.values) THEN w
    ELSE RestoreValues(
            setattr_op(w, fn.stack_index, fn.op, fn.values[j].prop,
                       IF PropType[fn.values[j].prop] = "vector"
                       THEN w.scene.stacks[fn.stack_index + 1].ops[fn.op][fn.values[j].prop]
                       ELSE fn.values[j].init),
            fn, j + 1)

RestoreFrom(w, stacks, s, f) ==
    IF Raised(w) \/ s > Len(stacks) THEN w
    ELSE IF f > Len(stacks[s].funcs) THEN RestoreFrom(w, stacks, s + 1, 1)
    ELSE RestoreFrom(
            IF stacks[s].funcs[f].repeatable
            THEN RestoreValues(w, stacks[s].funcs[f], 1) ELSE w,
            stacks, s, f + 1)

\* A restore that sets live_update before it writes the fields back.
RestoreFlagFirst(w, stacks, mode) ==
    setmode(RestoreFrom(live_update_set(w, TRUE), stacks, 1, 1), mode)

\* STACKS_ExecuteStacks.restore
restore(w, stacks, mode) ==
    live_update_set(setmode(RestoreFrom(w, stacks, 1, 1), mode), TRUE)

\* __init__ from self.stacks = self._stacks() on.
ExecuteStacks(w, mode) ==
    IF Raised(w) THEN w ELSE restore(execute(w, w.ret), w.ret, mode)

\* __init__ after self.ob, self.ref = self.ob_ref(...), for the mode getmode
\* returned before.
ObjectSetUp(w, mode) ==
    IF Raised(w) THEN w
    ELSE IF w.ret = NoObject
    THEN setmode(
            live_update_set(
                Warning(w, "Can not create mesh from this type of object"),
                TRUE),
            mode)
    ELSE ExecuteStacks(stacks_of(Logged(w, "body", "", <<>>), w.ret), mode)

\* STACKS_ExecuteStacks(context)
Exec(w) ==
    IF Raised(w) THEN w
    ELSE IF w.depth >= RecursionLimit THEN Raise(w, "RecursionError")
    ELSE IF ~w.objs[w.ctx.object].live_update THEN Logged(w, "skip", "", <<>>)
    ELSE Left(ObjectSetUp(ob_ref(Entered(w)), getmode(w)))

\* upd_ops, the loop over context.view_layer.objects from object o on.  The
\* host decides whether the loop sees an object that was linked while it ran
\* (host.live_loop) or only those linked when it started (layer).
UpdateOthers(w, stacks, active, layer, o) ==
    IF Raised(w) \/ o \notin ObjIds THEN w
    ELSE IF \/ ~(w.objs[o].exists /\ w.objs[o].linked)
            \/ ~(w.host.live_loop \/ o \in layer)
            \/ o = active
            \/ StackIndices(w.objs[o]) \cap stacks = {}
            \/ Len(w.objs[o].stacks) = 0
    THEN UpdateOthers(w, stacks, active, layer, o + 1)
    ELSE UpdateOthers(Exec(set_active_obj(w, o)), stacks, active, layer, o + 1)

\* upd_ops after the loop
UpdatedOthers(w, active, selected, mode) ==
    setmode(Reselect(set_active_obj(w, active), selected, 1), mode)

\* upd_ops remembers the active object, the selected objects and the mode;
\* the log shows what it remembered.
Remembered(w) ==
    Logged(w, "remember", getmode(w), <<w.ctx.object, Selected(w)>>)

\* upd_ops with update_all, after STACKS_ExecuteStacks(context) on the active
\* object; ob is context.object as upd_ops found it.
UpdateAll(w, ob) ==
    IF Raised(w) THEN w
    ELSE UpdatedOthers(
            UpdateOthers(object_select_all(setmode(Remembered(w), "OBJECT")),
                         StackIndices(w.objs[ob]), w.ctx.object, ViewLayer(w), 1),
            w.ctx.object, Selected(w), getmode(w))

\* upd_ops
upd_ops(w) ==
    IF Raised(w) THEN w
    ELSE IF w.objs[w.ctx.object].update_all THEN UpdateAll(Exec(w), w.ctx.object)
    ELSE Exec(w)

\* upd_obj with its call of upd_ops: the update callback of the "Stack" menu
\* of a slot, run to its end.
UpdObjOps(w) ==
    IF w.ctx.object = NoObject THEN w ELSE upd_ops(w)

UpdObj(w) ==
    IF Raised(w) THEN w
    ELSE IF w.objs[w.ctx.object].live_update
    THEN UpdObjOps([w EXCEPT !.objs = ob_stack_index_update(
                                  w.objs, w.ctx.object, w.scene.stacks)])
    ELSE w

-------------------------------------------------------------------------------
(* Show Original, Edit Original, stacks.clear and stacks.apply *)

\* upd_show_original after setmode: ref.name = ob.name + '_stacks_ref' comes
\* after obj_col_link, which raises AttributeError for ref None.
ShowOriginal(w, ob, ref) ==
    IF Raised(w) THEN w
    ELSE IF ~w.objs[ob].show_reference THEN obj_unlink(w, ref)
    ELSE IF ref = NoObject THEN Raise(w, "AttributeError")
    ELSE obj_lock([obj_col_link(w, ob, ref) EXCEPT
                      !.objs[ref].name = Append(w.objs[ob].name, "_stacks_ref")],
                  ref, TRUE)

\* upd_show_original, the update callback of show_reference
upd_show_original(w) ==
    ShowOriginal(setmode(w, "OBJECT"), w.ctx.object,
                 w.objs[w.ctx.object].ob_reference)

\* stacksob.stacks_common.live_update = True
LiveUpdateOf(w, ob) ==
    IF Raised(w) THEN w ELSE [w EXCEPT !.objs[ob].live_update = TRUE]

\* upd_edit_original, first branch: "Edit Original" pressed on the stacked
\* object ob, whose reference ref becomes the active object in edit mode.
EditOriginal(w, ob, ref) ==
    setmode(
        set_active_obj(
            obs_swap_names(
                obj_lock(
                    obj_unlink(
                        obj_col_link(
                            setmode([w EXCEPT !.objs[ob].live_update = FALSE],
                                    "OBJECT"),
                            ob, ref),
                        ob),
                    ref, FALSE),
                ob, ref),
            ref),
        "EDIT")

\* upd_edit_original, second branch: "Edit Original" released while the
\* reference ob is the active object; the stacked object stacksob comes back
\* and its stacks are executed.
EditedOriginal(w, ob, stacksob) ==
    Exec(
        LiveUpdateOf(
            obs_swap_names(
                set_active_obj(
                    obj_unlink(
                        obj_lock(obj_col_link(setmode(w, "OBJECT"), ob, stacksob),
                                 ob, TRUE),
                        ob),
                    stacksob),
                ob, stacksob),
            stacksob))

\* upd_edit_original, the update callback of edit_reference
upd_edit_original(w) ==
    IF Raised(w) THEN w
    ELSE IF w.objs[w.ctx.object].ob_reference # NoObject
    THEN IF ~w.objs[w.ctx.object].edit_reference THEN Raise(w, "AssertionError")
         ELSE EditOriginal(w, w.ctx.object, w.objs[w.ctx.object].ob_reference)
    ELSE IF w.objs[w.ctx.object].ob_stacks # NoObject
    THEN IF w.objs[w.ctx.object].edit_reference THEN Raise(w, "AssertionError")
         ELSE EditedOriginal(w, w.ctx.object, w.objs[w.ctx.object].ob_stacks)
    ELSE Raise(w, "ValueError")

\* A clear that resets the reference and leaves the stacked object and its
\* mesh in bpy.data.
ClearedKeepingDerived(w, ob, ref) ==
    IF Raised(w) THEN w
    ELSE [w EXCEPT !.objs[ref].ob_stacks = NoObject,
                   !.objs[ref].ob_reference = NoObject,
                   !.objs[ref].stacks = <<>>,
                   !.objs[ref].stacks_c = <<>>,
                   !.objs[ref].live_update = TRUE]

\* STACKS_OT_Clear.execute from ref.stacks_common.ob_stacks = None on: the
\* reference is an object of its own again, the stacked object and its mesh
\* are removed.
Cleared(w, ob, ref) ==
    IF Raised(w) THEN w
    ELSE meshes_remove(
            objects_remove(
                [w EXCEPT !.objs[ref].ob_stacks = NoObject,
                          !.objs[ref].ob_reference = NoObject,
                          !.objs[ref].stacks = <<>>,
                          !.objs[ref].stacks_c = <<>>,
                          !.objs[ref].live_update = TRUE],
                ob),
            w.objs[ob].data)

\* STACKS_OT_Clear.execute
STACKS_OT_Clear(w, ob, ref) ==
    Cleared(
        set_active_obj(
            obj_lock(obs_swap_names(obj_col_link(w, ob, ref), ob, ref), ref, FALSE),
            ref),
        ob, ref)

\* STACKS_OT_Apply.execute from ref = ob.stacks_common.ob_reference on;
\* ref.data raises AttributeError for ref None.
Applied(w, ref) ==
    IF ref = NoObject THEN Raise(w, "AttributeError")
    ELSE meshes_remove(objects_remove(w, ref), w.objs[ref].data)

\* STACKS_OT_Apply.execute
STACKS_OT_Apply(w, ob) ==
    Applied([w EXCEPT !.objs[ob].live_update = FALSE,
                      !.objs[ob].stacks = <<>>,
                      !.objs[ob].stacks_c = <<>>],
            w.objs[ob].ob_reference)

-------------------------------------------------------------------------------
(* bpy.app.handlers and the instance of stacks.render *)

\* The handler lists the add-on appends to and removes from.  A function
\* object is its id(); no list holds a function while "Animatable" is off.
NoHandlers ==
    [frame_change_post |-> <<>>, render_init |-> <<>>, render_pre |-> <<>>,
     render_complete |-> <<>>, render_cancel |-> <<>>,
     depsgraph_update_post |-> <<>>]

\* The class attributes of STACKS_OT_RenderAnimation, which a new instance
\* reads until it assigns its own (None is 0, or the empty sequence).
STACKS_OT_RenderAnimation ==
    [rendering |-> FALSE, render_started |-> FALSE, render_cancelled |-> FALSE,
     render_finished |-> FALSE, timer |-> 0, render_pre |-> 0,
     render_cancel |-> 0, render_complete |-> 0, frame |-> 0, frames |-> <<>>,
     frame_change |-> 0, render_path |-> <<>>, handlers_store |-> <<>>]

\* No instance runs: self is the last instance, modal tells whether the window
\* manager holds it as a modal handler, ret is what it returned last and runs
\* counts the instances so far.
NoRender ==
    [self |-> STACKS_OT_RenderAnimation, modal |-> FALSE, ret |-> "NONE",
     runs |-> 0]

-------------------------------------------------------------------------------
(* The registry: the handlers the user reaches from the panel *)

NoHist == [op |-> "none", k |-> 0, raised |-> FALSE, n |-> 0,
           objects |-> <<>>, stacks |-> <<>>, context |-> <<>>]

Hist(op, k, raised) ==
    [op |-> op, k |-> k, raised |-> raised, n |-> hist.n + 1,
     objects |-> objects, stacks |-> scene.stacks, context |-> context]

Ctx == context.object

\* The model follows the user for MaxOps handlers.
Budget == hist.n < MaxOps

\* The program as a handler finds it.
W == World(scene, objects, meshes, context, host)

\* A handler has run and left the world r; the log keeps what it did and what
\* the handler before it did.
Handled(op, k, r) ==
    /\ scene' = r.scene
    /\ objects' = r.objs
    /\ meshes' = r.meshes
    /\ context' = r.ctx
    /\ log' = [events |-> r.log,
               before |-> [op |-> hist.op, raised |-> hist.raised,
                           events |-> log.events]]
    /\ hist' = Hist(op, k, Raised(r))
    /\ UNCHANGED <<host, handlers, render>>

\* The user makes another object of the view layer the active one.
SetActive(o) ==
    /\ Budget
    /\ objects[o].exists /\ objects[o].linked
    /\ o # Ctx
    /\ context' = [context EXCEPT !.object = o]
    /\ hist' = Hist("set_active", 0, FALSE)
    /\ UNCHANGED <<scene, objects, run_vars>>

\* The "Live Update" toggle of the panel (STACKS_UI_StackMenu), drawn once the
\* object has a slot.
ToggleLiveUpdate ==
    /\ Budget
    /\ Len(objects[Ctx].stacks) > 0
    /\ objects' = [objects EXCEPT ![Ctx].live_update = ~@]
    /\ hist' = Hist("live_update", 0, FALSE)
    /\ UNCHANGED <<scene, context, run_vars>>

\* The user clicks row i of the slot list (template_list over Object.stacks with
\* Object.stacks_active as the active index).
SelectSlot(i) ==
    /\ Budget
    /\ i + 1 \in DOMAIN objects[Ctx].stacks
    /\ i # objects[Ctx].stacks_active
    /\ objects' = [objects EXCEPT ![Ctx].stacks_active = i]
    /\ hist' = Hist("select_slot", i, FALSE)
    /\ UNCHANGED <<scene, context, run_vars>>

\* stacks.slot_add with source = "object", prop = "stacks" (STACKS_SlotAdd).
ObjectSlotAdd ==
    /\ Budget
    /\ Len(objects[Ctx].stacks) < MaxSlots
    /\ objects' = object_stack_add(scene, objects, Ctx)
    /\ hist' = Hist("object_stack_add", 0, FALSE)
    /\ UNCHANGED <<scene, context, run_vars>>

\* stacks.slot_remove with source = "object", prop = "stacks" (STACKS_SlotRemove).
ObjectSlotRemoveDone(r) ==
    /\ objects' = r.objs
    /\ hist' = Hist("object_stack_remove", objects[Ctx].stacks_active, r.raised)

ObjectSlotRemove ==
    /\ Budget
    /\ ObjectSlotRemoveDone(object_stack_remove(scene, objects, Ctx))
    /\ UNCHANGED <<scene, context, run_vars>>

StacksRemoveDone(k, r) ==
    /\ scene' = r.scene
    /\ objects' = r.objs
    /\ hist' = Hist("project_stack_remove", k, r.raised)

\* STACKS_OT_Remove.execute with type = 'STACK'.  The panel draws the button
\* when the active slot's enum value is a scene stack (STACKS_UI_StackMenu).
StacksRemove ==
    /\ Budget
    /\ objects[Ctx].type = "MESH"
    /\ objects[Ctx].stacks_active + 1 \in Zip(objects[Ctx])
    /\ objects[Ctx].stacks[objects[Ctx].stacks_active + 1].stack < Len(scene.stacks)
    /\ StacksRemoveDone(
            objects[Ctx].stacks_c[objects[Ctx].stacks_active + 1].stack_index,
            project_stack_remove(
                [scene EXCEPT !.stacks_active =
                    objects[Ctx].stacks_c[objects[Ctx].stacks_active + 1].stack_index],
                objects, Ctx))
    /\ UNCHANGED <<context, run_vars>>

\* STACKS_OT_New.__get_stack_name: "Stack", then "Stack 01", "Stack 02", ...
NumberedName(num) ==
    CASE num = 0 -> "Stack"
      [] num = 1 -> "Stack 01"
      [] num = 2 -> "Stack 02"
      [] num = 3 -> "Stack 03"
      [] OTHER -> "Stack 04"

get_stack_name(stacks) ==
    NumberedName(Min({n \in 0..Len(stacks) :
                        \A i \in DOMAIN stacks : stacks[i].name # NumberedName(n)}))

\* stacks_enum_register, the update callback of STACKS_PROP_Stacks.name:
\* EnumStackItemsRegister() with live_update of context.object cleared, then
\* put back.  An exception leaves the callback before the flag is put back.
StacksEnumRegistered(up, live_update, ctx) ==
    IF up.raised THEN up.objs
    ELSE [up.objs EXCEPT ![ctx].live_update = live_update]

stacks_enum_register(objs, ctx, stacks) ==
    StacksEnumRegistered(
        update_project([objs EXCEPT ![ctx].live_update = FALSE],
                       "ADD", 0, ctx, stacks),
        objs[ctx].live_update, ctx)

\* STACKS_OT_New.__new_stack, last part: the active slot of context.object is
\* pointed at the new stack (the assignment runs upd_obj).
NewStackAssign(named, o1, ctx) ==
    [scene |-> named,
     objs |-> [upd_obj([o1 EXCEPT ![ctx].stacks[o1[ctx].stacks_active + 1].stack =
                                      Len(named.stacks) - 1],
                       ctx, named.stacks)
               EXCEPT ![ctx].stacks_c[o1[ctx].stacks_active + 1].stack_index =
                          Len(named.stacks) - 1],
     raised |-> FALSE]

\* STACKS_OT_New.__new_stack, middle part: stack.name = stack_name runs
\* stacks_enum_register.
NewStackNamed(named, objs, ctx) ==
    NewStackAssign(named, stacks_enum_register(objs, ctx, named.stacks), ctx)

\* STACKS_OT_New.__new_stack after bpy.ops.stacks.slot_add returned add.
NewStackAdded(add, stack_name) ==
    [add.scene EXCEPT !.stacks[add.scene.stacks_active + 1].name = stack_name]

\* STACKS_OT_New.__new_stack: [scene, objs, raised]
NewStackFrom(add, ctx, stack_name) ==
    IF add.raised THEN add
    ELSE NewStackNamed(NewStackAdded(add, stack_name), add.objs, ctx)

new_stack(sc, objs, ctx, stack_name) ==
    NewStackFrom(project_stack_add(sc, objs, ctx), ctx, stack_name)

\* STACKS_OT_New.execute after __new_stack returned r: live_update is put back
\* unless an exception ended execute before.
StacksNewDone(r, live_update) ==
    /\ scene' = r.scene
    /\ objects' = IF r.raised THEN r.objs
                  ELSE [r.objs EXCEPT ![Ctx].live_update = live_update]
    /\ hist' = Hist("new", 0, r.raised)

\* STACKS_OT_New.execute.  The panel draws the button below the slot list, so
\* context.object has a slot.
StacksNew ==
    /\ Budget
    /\ Len(scene.stacks) < MaxStacks
    /\ objects[Ctx].stacks_active + 1 \in Zip(objects[Ctx])
    /\ StacksNewDone(new_stack(scene, [objects EXCEPT ![Ctx].live_update = FALSE],
                               Ctx, get_stack_name(scene.stacks)),
                     objects[Ctx].live_update)
    /\ UNCHANGED <<context, run_vars>>

\* The user picks item v in the slot's "Stack" menu: the assignment runs upd_obj.
PickStack(v) ==
    /\ Budget
    /\ objects[Ctx].stacks_active + 1 \in DOMAIN objects[Ctx].stacks
    /\ v \in EnumItems(scene.stacks)
    /\ objects' = upd_obj(
            [objects EXCEPT ![Ctx].stacks[objects[Ctx].stacks_active + 1].stack = v],
            Ctx, scene.stacks)
    /\ hist' = Hist("pick", v, FALSE)
    /\ UNCHANGED <<scene, context, run_vars>>

\* A move that leaves the index fields with the elements they came with.
SwappedKeepingIndex(seq, a, b) ==
    [i \in DOMAIN seq |->
        IF i = a THEN seq[b] ELSE IF i = b THEN seq[a] ELSE seq[i]]

\* bpy_prop_collection.move between the neighbouring positions a and b
\* (counted from 1), followed by the exchange of the index fields of the two
\* positions.
Swapped(seq, a, b) ==
    [i \in DOMAIN seq |->
        IF i = a THEN [seq[b] EXCEPT !.index = seq[a].index]
        ELSE IF i = b THEN [seq[a] EXCEPT !.index = seq[b].index]
        ELSE seq[i]]

\* STACKS_ObSlotMove: the active slot of ob moves one position up (direction)
\* or down, in Object.stacks and in Object.stacks_c.
STACKS_ObSlotMove(objs, ob, direction) ==
    IF direction /\ objs[ob].stacks_active > 0
    THEN [objs EXCEPT
            ![ob].stacks = Swapped(@, objs[ob].stacks_active + 1,
                                   objs[ob].stacks_active),
            ![ob].stacks_c = Swapped(@, objs[ob].stacks_active + 1,
                                     objs[ob].stacks_active),
            ![ob].stacks_active = @ - 1]
    ELSE IF ~direction /\ objs[ob].stacks_active < Len(objs[ob].stacks) - 1
    THEN [objs EXCEPT
            ![ob].stacks = Swapped(@, objs[ob].stacks_active + 1,
                                   objs[ob].stacks_active + 2),
            ![ob].stacks_c = Swapped(@, objs[ob].stacks_active + 1,
                                     objs[ob].stacks_active + 2),
            ![ob].stacks_active = @ + 1]
    ELSE objs

\* stacks.slot_ob_move (STACKS_OT_ObSlotMove.execute); the panel draws the two
\* buttons once the object has more than one slot.
ObSlotMove(direction) ==
    /\ Budget
    /\ Len(objects[Ctx].stacks) > 1
    /\ objects' = STACKS_ObSlotMove(objects, Ctx, direction)
    /\ hist' = Hist("slot_ob_move", IF direction THEN 1 ELSE 0, FALSE)
    /\ UNCHANGED <<scene, context, run_vars>>

\* The names the user types for a stack.
StackNames == {"Base"}

\* The user edits the name of the scene stack a row of the slot list shows
\* (STACKS_UL_ObStacks.draw_item); the update callback of the name is
\* stacks_enum_register.
Rename(i, name) ==
    /\ Budget
    /\ i \in Zip(objects[Ctx])
    /\ objects[Ctx].stacks_c[i].type = "STACK"
    /\ objects[Ctx].stacks_c[i].stack_index < Len(scene.stacks)
    /\ name # scene.stacks[objects[Ctx].stacks_c[i].stack_index + 1].name
    /\ scene' = [scene EXCEPT
                    !.stacks[objects[Ctx].stacks_c[i].stack_index + 1].name = name]
    /\ objects' = stacks_enum_register(objects, Ctx, scene'.stacks)
    /\ hist' = Hist("rename", objects[Ctx].stacks_c[i].stack_index, FALSE)
    /\ UNCHANGED <<context, run_vars>>

\* STACKS_OT_Duplicate.__copy_settings: an entry is added to the new stack
\* trg for every entry of src and every property of the entry is copied.
\* Each write runs the update callback of the property, upd_ops, for the
\* same object with live_update cleared; the model runs it once per entry.
RECURSIVE CopySettingsFrom(_, _, _, _)
CopySettingsFrom(w, src, trg, k) ==
    IF Raised(w) \/ k > Len(w.scene.stacks[src + 1].ops) THEN w
    ELSE CopySettingsFrom(
            Dropped(upd_ops([w EXCEPT
                !.scene.stacks[trg + 1].ops =
                    Append(@, w.scene.stacks[src + 1].ops[k]),
                !.scene.stacks[trg + 1].ops_active =
                    Len(w.scene.stacks[trg + 1].ops)])),
            src, trg, k + 1)

\* bpy.ops.stacks.new() called from STACKS_OT_Duplicate.execute.
DuplicateNew(w) ==
    LET r == new_stack(w.scene, w.objs, w.ctx.object,
                       get_stack_name(w.scene.stacks))
    IN  IF r.raised
        THEN Raise([w EXCEPT !.scene = r.scene, !.objs = r.objs], "RuntimeError")
        ELSE [w EXCEPT !.scene = r.scene, !.objs = r.objs]

\* trg_stack.name = src_stack.name + ".copy", whose update callback is
\* stacks_enum_register; trg is the stack the active slot references now.
DuplicateNamed(w, src, trg) ==
    IF Raised(w) THEN w
    ELSE IF trg >= Len(w.scene.stacks) THEN Raise(w, "IndexError")
    ELSE [w EXCEPT
            !.scene.stacks[trg + 1].name = w.scene.stacks[src + 1].name \o ".copy",
            !.objs = stacks_enum_register(
                        w.objs, w.ctx.object,
                        [w.scene.stacks EXCEPT
                            ![trg + 1].name =
                                w.scene.stacks[src + 1].name \o ".copy"])]

\* STACKS_OT_Duplicate.__set_ob_stack_index; the assignment of the enum value
\* runs upd_obj.
set_ob_stack_index(w, ob, slot) ==
    IF Raised(w) THEN w
    ELSE Dropped(UpdObj([w EXCEPT
            !.objs[ob].stacks_c[slot].stack_index = Len(w.scene.stacks) - 1,
            !.objs[ob].stacks[slot].stack = Len(w.scene.stacks) - 1]))

\* STACKS_OT_Duplicate.execute from src_stack = self.stack on.
Duplicated(w, ob, slot, src, live_update) ==
    IF src >= Len(w.scene.stacks) THEN Raise(w, "IndexError")
    ELSE upd_ops(
            live_update_set(
                set_ob_stack_index(
                    CopySettingsFrom(
                        DuplicateNamed(DuplicateNew(w), src,
                            DuplicateNew(w).objs[ob].stacks_c[slot].stack_index),
                        src,
                        DuplicateNew(w).objs[ob].stacks_c[slot].stack_index, 1),
                    ob, slot),
                live_update))

\* STACKS_OT_Duplicate.execute
STACKS_OT_Duplicate(w) ==
    Duplicated([w EXCEPT !.objs[w.ctx.object].live_update = FALSE],
               w.ctx.object, w.objs[w.ctx.object].stacks_active + 1,
               w.objs[w.ctx.object].stacks_c[
                   w.objs[w.ctx.object].stacks_active + 1].stack_index,
               w.objs[w.ctx.object].live_update)

\* stacks.duplicate; the panel draws the button next to the "Stack" menu of a
\* slot of type STACK whose enum value is a scene stack (STACKS_UI_StackMenu).
Duplicate ==
    /\ Budget
    /\ Len(scene.stacks) < MaxStacks
    /\ objects[Ctx].stacks_active + 1 \in Zip(objects[Ctx])
    /\ objects[Ctx].stacks_c[objects[Ctx].stacks_active + 1].type = "STACK"
    /\ objects[Ctx].stacks[objects[Ctx].stacks_active + 1].stack < Len(scene.stacks)
    /\ Handled("duplicate", 0, STACKS_OT_Duplicate(W))

\* A log with nothing in it.
NoLog ==
    [events |-> <<>>,
     before |-> [op |-> "none", raised |-> FALSE, events |-> <<>>]]

\* A host that rejects no command.
Host(faulty, live_loop) == [faulty |-> faulty, live_loop |-> live_loop]

\* A mesh object "name" of the scene that uses mesh data and has never been
\* stacked.
MeshObject(name, data) ==
    [NewObject("MESH", TRUE) EXCEPT !.name = <<name>>, !.data = data]

\* A stacked object and its reference as __make_ref, __ob_ref and __show_ref
\* leave them: the object in the scene, the reference (the original, renamed)
\* out of it with live_update cleared by the run that stacked it.
Stacked(name, data, ref) ==
    [MeshObject(name, data) EXCEPT !.ob_reference = ref, !.select = TRUE]

Reference(name, data, ob) ==
    [NewObject("MESH", FALSE) EXCEPT
        !.name = <<name, SUFFIX>>, !.data = data,
        !.ob_stacks = ob, !.live_update = FALSE]

\* A triangle: three vertices, three edges, one face.
Triangle == Mesh(3, 3, 1)

\* Two stacked mesh objects of the scene (1 and 2) with their hidden references
\* (3 and 4), an empty catalog and no slots.
InitRegistry ==
    /\ scene = [stacks |-> <<>>, stacks_active |-> 0]
    /\ objects = [o \in ObjIds |->
                    CASE o = 1 -> Stacked("Cube", 1, 3)
                      [] o = 2 -> Stacked("Plane", 2, 4)
                      [] o = 3 -> Reference("Cube", 3, 1)
                      [] o = 4 -> Reference("Plane", 4, 2)
                      [] OTHER -> Absent]
    /\ meshes = [m \in MeshIds |-> IF m <= 4 THEN Triangle ELSE NoMesh]
    /\ context = [object |-> 1, mode |-> "OBJECT"]
    /\ host = Host({}, FALSE)
    /\ log = NoLog
    /\ hist = NoHist
    /\ handlers = NoHandlers
    /\ render = NoRender

NextRegistry ==
    \/ \E o \in ObjIds : SetActive(o)
    \/ ToggleLiveUpdate
    \/ \E i \in 0..(MaxSlots - 1) : SelectSlot(i)
    \/ ObjectSlotAdd
    \/ \E direction \in BOOLEAN : ObSlotMove(direction)
    \/ \E i \in 1..MaxSlots : \E name \in StackNames : Rename(i, name)
    \/ ObjectSlotRemove
    \/ StacksNew
    \/ Duplicate
    \/ StacksRemove
    \/ \E v \in 0..MaxStacks : PickStack(v)

SpecRegistry == InitRegistry /\ [][NextRegistry]_vars

-------------------------------------------------------------------------------
(* Executions: the handlers that run the stacks of stacked objects *)

\* The model follows the user for MaxRuns handlers that execute stacks, and
\* lets them set a repeat count up to MaxRepeat.
MaxRuns == 3
MaxRepeat == 2

RunBudget == hist.n < MaxRuns

\* stacks.update (STACKS_OT_Update.execute)
Update ==
    /\ RunBudget
    /\ Handled("update", 0, Exec(W))

\* The slot of context.object the panel shows, counted from 1.
ActiveSlot == objects[Ctx].stacks_active + 1

\* The panel draws "Repeat" and the operator entries for an active slot of
\* type STACK that references a stack of the catalog.
ShowsStack ==
    /\ ActiveSlot \in DOMAIN objects[Ctx].stacks_c
    /\ objects[Ctx].stacks_c[ActiveSlot].type = "STACK"
    /\ objects[Ctx].stacks_c[ActiveSlot].stack_index < Len(scene.stacks)

\* The user edits "Repeat" of the active slot; its update callback is upd_ops.
SetRepeat(r) ==
    /\ RunBudget
    /\ ShowsStack
    /\ r # objects[Ctx].stacks_c[ActiveSlot].repeat
    /\ Handled("repeat", r,
               Dropped(upd_ops([W EXCEPT
                   !.objs[Ctx].stacks_c[ActiveSlot].repeat = r])))

\* The user picks the curve of entry k of the stack the panel shows, which
\* draws the curve once the slot repeats (STACKS_PT_Panel.draw); the update
\* callback of interp_type is upd_ops.
SetInterpType(k, type) ==
    /\ RunBudget
    /\ ShowsStack
    /\ objects[Ctx].stacks_c[ActiveSlot].repeat > 1
    /\ k \in DOMAIN scene.stacks[objects[Ctx].stacks_c[ActiveSlot].stack_index + 1].ops
    /\ type # scene.stacks[objects[Ctx].stacks_c[ActiveSlot].stack_index + 1]
                    .ops[k].interp_type
    /\ Handled("interp_type", k,
               Dropped(upd_ops([W EXCEPT
                   !.scene.stacks[objects[Ctx].stacks_c[ActiveSlot].stack_index + 1]
                        .ops[k].interp_type = type])))

\* The "Update All" toggle of the panel (no update callback).
ToggleUpdateAll ==
    /\ RunBudget
    /\ Len(objects[Ctx].stacks) > 0
    /\ objects' = [objects EXCEPT ![Ctx].update_all = ~@]
    /\ hist' = Hist("update_all", 0, FALSE)
    /\ UNCHANGED <<scene, context, run_vars>>

\* The user clicks another object of the view layer, in object mode.
Activate(o) ==
    /\ RunBudget
    /\ context.mode = "OBJECT"
    /\ objects[o].exists /\ objects[o].linked
    /\ o # Ctx
    /\ context' = [context EXCEPT !.object = o]
    /\ hist' = Hist("set_active", o, FALSE)
    /\ UNCHANGED <<scene, objects, run_vars>>

\* The user clicks another row of the slot list.
ActivateSlot(i) ==
    /\ RunBudget
    /\ i + 1 \in DOMAIN objects[Ctx].stacks
    /\ i # objects[Ctx].stacks_active
    /\ objects' = [objects EXCEPT ![Ctx].stacks_active = i]
    /\ hist' = Hist("select_slot", i, FALSE)
    /\ UNCHANGED <<scene, context, run_vars>>

\* Operator entries as the panel leaves them once the user has picked the
\* command and typed its values (each edit ran the stacks with the curve at
\* CONSTANT, which names the entry and writes no parameter).
Subdivide ==
    [Operator EXCEPT
        !.name = "Generate Subdivide", !.operator_type = "GENERATE",
        !.ops_generate = "SUBDIVIDE", !.gen_subd_cuts = 3,
        !.value_min_int = 1, !.value_max_int = 3]

Grab ==
    [Operator EXCEPT
        !.name = "Transform Grab", !.operator_type = "TRANSFORM",
        !.value_vec_max = Vec(2, 4, 6)]

Nonmanifold ==
    [Operator EXCEPT
        !.name = "Select Nonmanifold", !.operator_type = "SELECT",
        !.ops_select = "NONMANIFOLD"]

\* The catalog: entry "Stack" with one operator entry, "Stack 01" with a
\* selection command, an entry the user disabled and an entry that was added
\* and left at its defaults (type NONE).
Catalog(op) ==
    <<[NewStack EXCEPT !.ops = <<op>>],
      [NewStack EXCEPT !.name = "Stack 01", !.index = 1,
                       !.ops = <<Nonmanifold,
                                 [Grab EXCEPT !.enabled = FALSE, !.index = 1],
                                 [Operator EXCEPT !.index = 2]>>]>>

\* Slot i of an object, picking scene stack v: the entry of Object.stacks and
\* the one of Object.stacks_c.
Slot(i, v, stacks) == [ObStack(i, v) EXCEPT !.name = SlotName(stacks, v)]

\* A slot of type SELECT with a stored selection (stacks.select_store).
SelectSlotOf(i, v, selection) ==
    [ObStackBackup(i, v) EXCEPT !.type = "SELECT", !.selection = selection]

\* A stored selection of a triangle, one stored when the mesh had more
\* vertices than the reference has now, and the snapshot of a slot whose
\* selection was never stored or was cleared (stacks.remove with type SELECT
\* writes the default back).
StoredSelections ==
    {Snapshot(<<0, 1>>, <<0>>, <<0>>), Snapshot(<<0, 5>>, <<0>>, <<0>>),
     Snapshot(<<>>, <<>>, <<>>)}

\* The slot lists of the first object: two slots on the same stack (the second
\* run once or twice), a slot on each stack, or a stored selection followed by
\* a stack.
SlotLists(stacks) ==
    {<< <<Slot(0, 0, stacks), Slot(1, 0, stacks)>>,
        <<ObStackBackup(0, 0), [ObStackBackup(1, 0) EXCEPT !.repeat = r]>> >> :
            r \in 1..MaxRepeat}
    \cup
    {<< <<Slot(0, 1, stacks), Slot(1, 0, stacks)>>,
        <<ObStackBackup(0, 1), ObStackBackup(1, 0)>> >>}
    \cup
    {<< <<Slot(0, 2, stacks), Slot(1, 0, stacks)>>,
        <<SelectSlotOf(0, 2, sel), ObStackBackup(1, 0)>> >> : sel \in StoredSelections}

\* The commands the host rejects on the geometry of the scene.
Faulty == {{}, {"mesh.subdivide", "mesh.select_non_manifold"}}

\* Two stacked mesh objects (1 and 2) with their references (3 and 4), every
\* curve at CONSTANT; "Update All" of the first object is on or off.
InitRun ==
    /\ \E op \in {Subdivide, Grab} :
         scene = [stacks |-> Catalog(op), stacks_active |-> 0]
    /\ \E slots \in SlotLists(scene.stacks) : \E update_all \in BOOLEAN :
         objects = [o \in ObjIds |->
                    CASE o = 1 -> [Stacked("Cube", 1, 3) EXCEPT
                                      !.stacks = slots[1], !.stacks_c = slots[2],
                                      !.update_all = update_all]
                      [] o = 2 -> [Stacked("Plane", 2, 4) EXCEPT
                                      !.stacks = <<Slot(0, 0, scene.stacks)>>,
                                      !.stacks_c = <<ObStackBackup(0, 0)>>,
                                      !.select = FALSE]
                      [] o = 3 -> Reference("Cube", 3, 1)
                      [] o = 4 -> Reference("Plane", 4, 2)
                      [] OTHER -> Absent]
    /\ meshes = [m \in MeshIds |-> IF m <= 4 THEN Triangle ELSE NoMesh]
    /\ context = [object |-> 1, mode |-> "OBJECT"]
    /\ \E faulty \in Faulty : host = Host(faulty, FALSE)
    /\ log = NoLog
    /\ hist = NoHist
    /\ handlers = NoHandlers
    /\ render = NoRender

NextRun ==
    \/ Update
    \/ \E r \in 1..MaxRepeat : SetRepeat(r)
    \/ \E type \in {"CONSTANT", "BEZIER", "RANDOM"} : SetInterpType(1, type)
    \/ ToggleUpdateAll
    \/ \E o \in ObjIds : Activate(o)
    \/ \E i \in 0..MaxSlots - 1 : ActivateSlot(i)

SpecRun == InitRun /\ [][NextRun]_vars

-------------------------------------------------------------------------------
(* The lifecycle: objects are stacked, shown, edited, applied and cleared *)

\* The object whose settings the panel draws (STACKS_UI_TopMenu): the stacked
\* object while its reference is the active object.
Panel ==
    IF objects[Ctx].ob_stacks # NoObject THEN objects[Ctx].ob_stacks ELSE Ctx

\* The model follows the user for MaxSteps handlers of the lifecycle.
MaxSteps == 4

\* The panel is drawn for an active object (STACKS_PT_Panel.poll).
Polled == hist.n < MaxSteps /\ Ctx # NoObject

\* stacks.update on whatever object is active.
Run ==
    /\ Polled
    /\ Handled("update", 0, Exec(W))

\* The user picks item v in the "Stack" menu of the slot the panel shows; the
\* update callback of the property is upd_obj.
Pick(v) ==
    /\ Polled
    /\ objects[Panel].stacks_active + 1 \in Zip(objects[Panel])
    /\ objects[Panel].stacks_c[objects[Panel].stacks_active + 1].type = "STACK"
    /\ v \in EnumItems(scene.stacks)
    /\ v # objects[Panel].stacks[objects[Panel].stacks_active + 1].stack
    /\ Handled("pick", v,
               Dropped(UpdObj([W EXCEPT
                   !.objs[Panel].stacks[objects[Panel].stacks_active + 1].stack = v])))

\* The "Show Original" toggle of the panel.
ToggleShow ==
    /\ Polled
    /\ Handled("show_reference", 0,
               Dropped(upd_show_original([W EXCEPT
                   !.objs[Panel].show_reference = ~objects[Panel].show_reference])))

\* The "Edit Original" toggle of the panel.
ToggleEdit ==
    /\ Polled
    /\ Handled("edit_reference", 0,
               Dropped(upd_edit_original([W EXCEPT
                   !.objs[Panel].edit_reference = ~objects[Panel].edit_reference])))

\* stacks.apply and stacks.clear, the buttons next to the slot list
\* (STACKS_UI_StackList draws them once the object has a slot).
Apply ==
    /\ Polled
    /\ Len(objects[Panel].stacks) > 0
    /\ Handled("apply", 0, STACKS_OT_Apply(W, Ctx))

Clear ==
    /\ Polled
    /\ Len(objects[Panel].stacks) > 0
    /\ Handled("clear", 0, STACKS_OT_Clear(W, Ctx, objects[Ctx].ob_reference))

\* The user clicks an object of the view layer that can be selected.
Click(o) ==
    /\ Polled
    /\ context.mode = "OBJECT"
    /\ objects[o].exists /\ objects[o].linked /\ ~objects[o].hide_select
    /\ o # Ctx
    /\ Handled("set_active", o, set_active_obj(W, o))

\* The user switches the mode of the active object (Tab, Ctrl-Tab).
SwitchMode(mode) ==
    /\ Polled
    /\ ~Raised(mode_set(W, mode))
    /\ mode_set(W, mode).ctx.mode # context.mode
    /\ Handled("mode_set", 0, mode_set(W, mode))

\* An object of the scene that has no geometry: an armature.
Armature(name) ==
    [NewObject("ARMATURE", TRUE) EXCEPT !.name = <<name>>]

\* One slot that picks item v of the "Stack" menu.
OneSlot(ob, v, stacks) ==
    [ob EXCEPT !.stacks = <<Slot(0, v, stacks)>>,
               !.stacks_c = <<ObStackBackup(0, v)>>]

\* A mesh object and an armature that were given a slot and no stack yet (1
\* and 2), a stacked mesh object (3) with its reference (4); any of the three
\* objects of the scene is the active one.
InitLifecycle ==
    /\ scene = [stacks |-> Catalog(Subdivide), stacks_active |-> 0]
    /\ objects = [o \in ObjIds |->
                    CASE o = 1 -> OneSlot(MeshObject("Cube", 1),
                                          Len(scene.stacks), scene.stacks)
                      [] o = 2 -> OneSlot(Armature("Rig"),
                                          Len(scene.stacks), scene.stacks)
                      [] o = 3 -> OneSlot([Stacked("Plane", 2, 4) EXCEPT
                                              !.select = FALSE],
                                          0, scene.stacks)
                      [] o = 4 -> Reference("Plane", 3, 3)
                      [] OTHER -> Absent]
    /\ meshes = [m \in MeshIds |-> IF m <= 3 THEN Triangle ELSE NoMesh]
    /\ \E o \in 1..3 : context = [object |-> o, mode |-> "OBJECT"]
    /\ \E live_loop \in BOOLEAN : host = Host({}, live_loop)
    /\ log = NoLog
    /\ hist = NoHist
    /\ handlers = NoHandlers
    /\ render = NoRender

NextLifecycle ==
    \/ Run
    \/ \E v \in 0..MaxStacks : Pick(v)
    \/ ToggleShow
    \/ ToggleEdit
    \/ Apply
    \/ Clear
    \/ \E o \in ObjIds : Click(o)
    \/ \E mode \in {"OBJECT", "EDIT", "POSE"} : SwitchMode(mode)

SpecLifecycle == InitLifecycle /\ [][NextLifecycle]_vars

-------------------------------------------------------------------------------
(* The interpolation: one stacked object whose slot repeats an eased entry *)

\* The slot repeats up to MaxIterations times, and the integer range of the
\* entry ends at MaxValue at most.
MaxIterations == 5
MaxValue == 5

\* The user picks the direction ("interpolate") or the ease ("interp_ease",
\* drawn for the curve BEZIER) of entry k of the stack the panel shows; the
\* update callback of both is upd_ops.
SetCurve(k, prop, value) ==
    /\ RunBudget
    /\ ShowsStack
    /\ objects[Ctx].stacks_c[ActiveSlot].repeat > 1
    /\ k \in DOMAIN scene.stacks[objects[Ctx].stacks_c[ActiveSlot].stack_index + 1].ops
    /\ prop = "interp_ease" =>
            scene.stacks[objects[Ctx].stacks_c[ActiveSlot].stack_index + 1]
                .ops[k].interp_type = "BEZIER"
    /\ value # scene.stacks[objects[Ctx].stacks_c[ActiveSlot].stack_index + 1]
                    .ops[k][prop]
    /\ Handled(prop, k,
               Dropped(upd_ops([W EXCEPT
                   !.scene.stacks[objects[Ctx].stacks_c[ActiveSlot].stack_index + 1]
                        .ops[k][prop] = value])))

\* A Generate/Subdivide entry on the curve BEZIER with ease-in 0 and ease-out
\* 1, its number of cuts interpolated from lo to hi.
Eased(ease, direction, lo, hi) ==
    [Subdivide EXCEPT
        !.interp_type = "BEZIER", !.interp_ease = ease,
        !.interpolate = direction,
        !.value_min_int = lo, !.value_max_int = hi]

\* One stacked mesh object (1) with its reference (2) and one slot on the
\* only stack of the catalog, which holds one eased entry.
InitEase ==
    /\ \E ease \in {"INOUT", "IN", "OUT"} :
       \E direction \in {"STRAIGHT", "REVERSED"} :
       \E hi \in {1, 3, MaxValue} :
         scene = [stacks |-> <<[NewStack EXCEPT
                                  !.ops = <<Eased(ease, direction, 1, hi)>>]>>,
                  stacks_active |-> 0]
    /\ \E repeat \in 2..MaxIterations :
         objects = [o \in ObjIds |->
                    CASE o = 1 -> [Stacked("Cube", 1, 2) EXCEPT
                                      !.stacks = <<Slot(0, 0, scene.stacks)>>,
                                      !.stacks_c = <<[ObStackBackup(0, 0) EXCEPT
                                                         !.repeat = repeat]>>]
                      [] o = 2 -> Reference("Cube", 2, 1)
                      [] OTHER -> Absent]
    /\ meshes = [m \in MeshIds |-> IF m <= 2 THEN Triangle ELSE NoMesh]
    /\ context = [object |-> 1, mode |-> "OBJECT"]
    /\ host = Host({}, FALSE)
    /\ log = NoLog
    /\ hist = NoHist
    /\ handlers = NoHandlers
    /\ render = NoRender

NextEase ==
    \/ Update
    \/ \E r \in 1..MaxIterations : SetRepeat(r)
    \/ \E ease \in {"INOUT", "IN", "OUT"} : SetCurve(1, "interp_ease", ease)
    \/ \E direction \in {"STRAIGHT", "REVERSED"} :
            SetCurve(1, "interpolate", direction)

SpecEase == InitEase /\ [][NextEase]_vars

-------------------------------------------------------------------------------
(* "Update All": objects that share a stack of the catalog *)

\* The model follows the user for MaxEdits handlers on the shared stack.
MaxEdits == 2

\* An object with one slot on the first stack of the catalog, repeated
\* `repeat` times.
Sharing(ob, repeat, stacks) ==
    [ob EXCEPT !.stacks = <<Slot(0, 0, stacks)>>,
               !.stacks_c = <<[ObStackBackup(0, 0) EXCEPT !.repeat = repeat]>>]

\* A stacked mesh object (1, reference 3) and a second mesh object (2) that is
\* stacked (reference 4) or was given its slot while the catalog was empty and
\* has not been executed yet; both have one slot on the stack "Stack", whose
\* entry is at CONSTANT or eased.  The first object is the active one, in
\* object mode or in edit mode.
InitShared ==
    /\ \E type \in {"CONSTANT", "BEZIER"} :
         scene = [stacks |-> Catalog([Subdivide EXCEPT !.interp_type = type]),
                  stacks_active |-> 0]
    /\ \E stacked \in BOOLEAN :
         /\ \E repeat \in 1..MaxRepeat :
            \E update_all \in BOOLEAN : \E select \in BOOLEAN :
              objects = [o \in ObjIds |->
                 CASE o = 1 -> [Sharing(Stacked("Cube", 1, 3), 1, scene.stacks)
                                   EXCEPT !.update_all = update_all]
                   [] o = 2 -> [Sharing(IF stacked THEN Stacked("Plane", 2, 4)
                                        ELSE MeshObject("Plane", 2),
                                        IF stacked THEN repeat ELSE 1,
                                        scene.stacks)
                                   EXCEPT !.select = select]
                   [] o = 3 -> Reference("Cube", 3, 1)
                   [] o = 4 -> IF stacked THEN Reference("Plane", 4, 2)
                               ELSE Absent
                   [] OTHER -> Absent]
         /\ meshes = [m \in MeshIds |->
                        IF m <= (IF stacked THEN 4 ELSE 3) THEN Triangle
                        ELSE NoMesh]
    /\ \E mode \in {"OBJECT", "EDIT_MESH"} :
         context = [object |-> 1, mode |-> mode]
    /\ \E live_loop \in BOOLEAN : host = Host({}, live_loop)
    /\ log = NoLog
    /\ hist = NoHist
    /\ handlers = NoHandlers
    /\ render = NoRender

\* The edits of the model: stacks.update, "Repeat" and the curve of the entry
\* (their update callback is upd_ops), the "Update All" toggle, a click on the
\* other object.
EditBudget == hist.n < MaxEdits

NextShared ==
    \/ EditBudget /\ Update
    \/ EditBudget /\ \E r \in 1..MaxRepeat : SetRepeat(r)
    \/ EditBudget /\ \E type \in {"CONSTANT", "BEZIER"} : SetInterpType(1, type)
    \/ EditBudget /\ ToggleUpdateAll
    \/ EditBudget /\ \E o \in ObjIds : Activate(o)

SpecShared == InitShared /\ [][NextShared]_vars

-------------------------------------------------------------------------------
(* The operator list of a scene stack: add, remove, move *)

\* The model lets a stack hold MaxEntries operator entries.
MaxEntries == 3

\* The number of handlers of the operator list and of the presets.
MaxListEdits == 4

\* The scene stack whose operator list the panel shows: the enum value of the
\* active slot of context.object (STACKS_UI_StackMenu.__active_stack), which
\* the panel passes to the buttons.
PanelStack == objects[Ctx].stacks[objects[Ctx].stacks_active + 1].stack

\* STACKS_SlotAdd.__init__ with prop = "stacks[i].ops": props.add(), the active
\* index is set to the last position and the new entry gets that index.
STACKS_SlotAdd(stack) ==
    [stack EXCEPT
        !.ops = Append(@, [Operator EXCEPT !.index = Len(stack.ops)]),
        !.ops_active = Len(stack.ops)]

\* STACKS_SlotRemove.__init__ with prop = "stacks[i].ops": the active entry is
\* removed, the others are renumbered, the entry before becomes the active one.
STACKS_SlotRemove(stack) ==
    [stack EXCEPT
        !.ops = Renumber(RemoveAt(@, stack.ops_active)),
        !.ops_active = IF stack.ops_active # 0 THEN stack.ops_active - 1 ELSE 0]

\* STACKS_OpsSlotMove.__init__ up to EnumStackItemsRegister():
\* stack.ops.move(active, active -+ 1) and the active index follows.
STACKS_OpsSlotMove(stack, direction) ==
    IF direction /\ stack.ops_active > 0
    THEN [stack EXCEPT
            !.ops = SwappedKeepingIndex(@, stack.ops_active + 1, stack.ops_active),
            !.ops_active = @ - 1]
    ELSE IF ~direction /\ stack.ops_active < Len(stack.ops) - 1
    THEN [stack EXCEPT
            !.ops = SwappedKeepingIndex(@, stack.ops_active + 1,
                                        stack.ops_active + 2),
            !.ops_active = @ + 1]
    ELSE stack

\* stacks.slot_add from the "+" button of the operator list.
OpsSlotAdd ==
    /\ Budget
    /\ PanelStack < Len(scene.stacks)
    /\ Len(scene.stacks[PanelStack + 1].ops) < MaxEntries
    /\ scene' = [scene EXCEPT !["stacks"][PanelStack + 1] = STACKS_SlotAdd(@)]
    /\ hist' = Hist("ops_slot_add", PanelStack, FALSE)
    /\ UNCHANGED <<objects, context, run_vars>>

\* stacks.slot_remove from the "-" button of the operator list.
OpsSlotRemove ==
    /\ Budget
    /\ PanelStack < Len(scene.stacks)
    /\ scene' = [scene EXCEPT !["stacks"][PanelStack + 1] = STACKS_SlotRemove(@)]
    /\ hist' = Hist("ops_slot_remove", PanelStack, FALSE)
    /\ UNCHANGED <<objects, context, run_vars>>

OpsSlotMoved(up) ==
    /\ objects' = up.objs
    /\ hist' = Hist("slot_ops_move", PanelStack, up.raised)

\* stacks.slot_ops_move (STACKS_OT_OpsSlotMove.execute): the move, then
\* EnumStackItemsRegister().
OpsSlotMove(direction) ==
    /\ Budget
    /\ PanelStack < Len(scene.stacks)
    /\ scene' = [scene EXCEPT
                    !["stacks"][PanelStack + 1] = STACKS_OpsSlotMove(@, direction)]
    /\ OpsSlotMoved(update_project(objects, "ADD", 0, Ctx, scene'.stacks))
    /\ UNCHANGED <<context, run_vars>>

\* The user clicks row i of the operator list (template_list over stack.ops
\* with stack.ops_active as the active index).
OpsClick(i) ==
    /\ Budget
    /\ PanelStack < Len(scene.stacks)
    /\ i + 1 \in DOMAIN scene.stacks[PanelStack + 1].ops
    /\ i # scene.stacks[PanelStack + 1].ops_active
    /\ scene' = [scene EXCEPT !["stacks"][PanelStack + 1].ops_active = i]
    /\ hist' = Hist("ops_click", i, FALSE)
    /\ UNCHANGED <<objects, context, run_vars>>

\* What bl_text.as_module() gives for the text picked in "Load from": whether
\* it has is_stacks_preset, whether stacks_version is newer than the add-on,
\* stack_name, the dictionaries op000.. and ops_number.
Preset(is_stacks_preset, newer, ops) ==
    [is_stacks_preset |-> is_stacks_preset, newer |-> newer,
     stack_name |-> "Saved", ops_number |-> Len(ops), ops |-> ops]

\* A text that is no preset, a preset stored from a stack without entries, a
\* preset with one entry and one stored by a newer version of the add-on.
Presets ==
    {Preset(FALSE, FALSE, <<>>), Preset(TRUE, FALSE, <<>>),
     Preset(TRUE, FALSE, <<Grab>>), Preset(TRUE, TRUE, <<Grab>>)}

\* STACKS_PresetsOps.__preset_check: the result is False for a text without
\* is_stacks_preset or with ops_number = 0.
preset_check(preset) == preset.is_stacks_preset /\ preset.ops_number # 0

\* The messages of __preset_check.
PresetChecked(w, preset) ==
    IF ~preset.is_stacks_preset THEN Warning(w, "is not Stacks preset")
    ELSE IF preset.ops_number = 0 THEN Warning(w, "No Operators found")
    ELSE IF preset.newer THEN Warning(w, "created in the newer version")
    ELSE w

\* STACKS_PresetsOps.__new_stack: bpy.ops.stacks.slot_add() with its defaults
\* is project_stack_add.
PresetNewStack(w, add) ==
    IF add.raised
    THEN Raise([w EXCEPT !.scene = add.scene, !.objs = add.objs], "RuntimeError")
    ELSE [w EXCEPT !.scene = add.scene, !.objs = add.objs]

\* STACKS_PresetsOps.__add_ops: ops_num times stacks.slot_add on the operator
\* list of the new stack.
RECURSIVE add_ops(_, _)
add_ops(stack, ops_num) ==
    IF ops_num = 0 THEN stack ELSE add_ops(STACKS_SlotAdd(stack), ops_num - 1)

\* STACKS_PresetsOps.__set_ops: every property of entry num is set to the
\* value of the dictionary (the update callbacks find live_update cleared).
set_ops(stack, ops) ==
    [stack EXCEPT !.ops = [num \in DOMAIN stack.ops |->
                              IF num \in DOMAIN ops THEN ops[num] ELSE @[num]]]

\* context.scene.stacks[-1].name = preset.stack_name, whose update callback is
\* stacks_enum_register.
PresetNamed(w, stack_name) ==
    [w EXCEPT
        !.scene.stacks[Len(w.scene.stacks)].name = stack_name,
        !.objs = stacks_enum_register(
                    w.objs, w.ctx.object,
                    [w.scene.stacks EXCEPT ![Len(w.scene.stacks)].name = stack_name])]

\* load_preset from ops = self.__get_ops(preset) on.
PresetLoaded(w, preset, live_update) ==
    IF Raised(w) THEN w
    ELSE upd_ops(live_update_set(
            PresetNamed(
                [w EXCEPT !.scene.stacks[Len(w.scene.stacks)] =
                    set_ops(add_ops(@, preset.ops_number), preset.ops)],
                preset.stack_name),
            live_update))

\* STACKS_PresetsOps.load_preset
load_preset(w, preset) ==
    IF ~preset_check(preset)
    THEN PresetChecked(live_update_set(w, FALSE), preset)
    ELSE PresetLoaded(
            PresetNewStack(
                PresetChecked(live_update_set(w, FALSE), preset),
                project_stack_add(w.scene,
                                  live_update_set(w, FALSE).objs, w.ctx.object)),
            preset, w.objs[w.ctx.object].live_update)

\* stacks.preset_load (STACKS_OT_PresetLoad.execute) with "Load Stack" pressed
\* and a text picked in "Load from".
PresetLoad(preset) ==
    /\ Budget
    /\ Len(scene.stacks) < MaxStacks
    /\ Handled("preset_load", preset.ops_number, load_preset(W, preset))

\* A stacked mesh object with one slot on either stack of the catalog, whose
\* operator lists hold one entry and three entries.
InitOps ==
    /\ scene = [stacks |-> Catalog(Subdivide), stacks_active |-> 0]
    /\ \E v \in {0, 1} :
         objects = [o \in ObjIds |->
            CASE o = 1 -> [Stacked("Cube", 1, 3) EXCEPT
                              !.stacks = <<Slot(0, v, scene.stacks)>>,
                              !.stacks_c = <<ObStackBackup(0, v)>>]
              [] o = 3 -> Reference("Cube", 3, 1)
              [] OTHER -> Absent]
    /\ meshes = [m \in MeshIds |-> IF m \in {1, 3} THEN Triangle ELSE NoMesh]
    /\ context = [object |-> 1, mode |-> "OBJECT"]
    /\ host = Host({}, FALSE)
    /\ log = NoLog
    /\ hist = NoHist
    /\ handlers = NoHandlers
    /\ render = NoRender

\* The model follows the user for MaxListEdits handlers of the panel.
ListBudget == hist.n < MaxListEdits

NextOps ==
    \/ ListBudget /\ OpsSlotAdd
    \/ ListBudget /\ OpsSlotRemove
    \/ ListBudget /\ \E direction \in BOOLEAN : OpsSlotMove(direction)
    \/ ListBudget /\ \E i \in 0..(MaxEntries - 1) : OpsClick(i)
    \/ ListBudget /\ \E preset \in Presets : PresetLoad(preset)
    \/ ListBudget /\ StacksNew
    \/ ListBudget /\ Duplicate
    \/ ListBudget /\ \E name \in StackNames : Rename(1, name)

SpecOps == InitOps /\ [][NextOps]_vars

-------------------------------------------------------------------------------
(* Render Animation: stacks.render and the handlers of "Animatable" *)

\* The timeline ends at MaxFrame at the latest, and the user starts
\* stacks.render MaxRenders times.
MaxFrame == 3
MaxRenders == 2

\* What the operator and the handlers read and write: the scene sc, the
\* handler lists, the instance self (the run-th one), the host, the events
\* of the animation so far and the exception that is propagating.
RenderWorld ==
    [sc |-> scene, handlers |-> handlers, self |-> render.self,
     run |-> render.runs, host |-> host, events |-> log.events, exc |-> "none"]

RenderEvent(ev, frame, path) == [ev |-> ev, frame |-> frame, path |-> path]

Noted(r, ev) ==
    [r EXCEPT !.events = Append(@, RenderEvent(ev, r.sc.frame_current,
                                                r.sc.filepath))]

\* while f in L: L.remove(f)
Removed(L, f) == SelectSeq(L, LAMBDA g : g # f)

\* f in L
In(L, f) == \E i \in DOMAIN L : L[i] = f

\* A new function object: id() is its place in the heap of the host, which
\* keeps what the function is and the instance its closure holds.
NewFunction(r, name) ==
    [r EXCEPT !.host.heap = Append(@, [name |-> name, self |-> r.run])]

\* Pointer(int(id)): the object with that id(); int("") raises ValueError.
Pointer(id) == id

\* f'{frame:04d}' for a frame that is not negative: its decimal digits,
\* filled with zeros to four.
RECURSIVE Digits(_)
Digits(n) == IF n < 10 THEN <<n>> ELSE Append(Digits(n \div 10), n % 10)

Format04d(frame) ==
    [i \in 1..(4 - Len(Digits(frame))) |-> 0] \o Digits(frame)

\* scene.frame_set(frame): the host sets the frame and calls the functions of
\* frame_change_post.  STACKS_frame_change returns at once in a scene with no
\* animated stack; the event keeps how many functions were called.
frame_set(r, frame) ==
    IF Raised(r) THEN r
    ELSE [r EXCEPT !.sc.frame_current = frame,
                   !.events = Append(@, [ev |-> "frame_set", frame |-> frame,
                                         path |-> r.sc.filepath,
                                         called |-> r.handlers.frame_change_post])]

\* __pre_render_handlers_clear
pre_render_handlers_clear(r) ==
    IF Raised(r) THEN r
    ELSE IF r.sc.render_init_id = 0 \/ r.sc.render_complete_id = 0
    THEN Raise(r, "ValueError")
    ELSE [r EXCEPT
            !.self.handlers_store = <<Pointer(r.sc.render_init_id),
                                      Pointer(r.sc.render_complete_id)>>,
            !.handlers.render_init = Removed(@, Pointer(r.sc.render_init_id)),
            !.handlers.render_complete =
                Removed(@, Pointer(r.sc.render_complete_id)),
            !.handlers.render_cancel =
                Removed(@, Pointer(r.sc.render_complete_id))]

\* self.render_pre = lambda x: render_pre(self) and RenderPre.append of it,
\* alike for the other two.
Callback(r, name, list) ==
    [NewFunction(r, name) EXCEPT !.self[name] = Len(r.host.heap) + 1,
                                 !.handlers[list] = Append(@, Len(r.host.heap) + 1)]

\* __pre_render_handlers_append
pre_render_handlers_append(r) ==
    IF Raised(r) THEN r
    ELSE Callback(Callback(Callback(r, "render_pre", "render_pre"),
                           "render_cancel", "render_cancel"),
                  "render_complete", "render_complete")

\* __post_render_handlers_clear
post_render_handlers_clear(r) ==
    IF Raised(r) THEN r
    ELSE [r EXCEPT
            !.handlers.render_pre = Removed(@, r.self.render_pre),
            !.handlers.render_cancel = Removed(@, r.self.render_cancel),
            !.handlers.render_complete = Removed(@, r.self.render_complete)]

\* __post_render_handlers_append
post_render_handlers_append(r) ==
    IF Raised(r) THEN r
    ELSE IF r.sc.render_init_id = 0 \/ r.sc.render_complete_id = 0
    THEN Raise(r, "ValueError")
    ELSE [r EXCEPT
            !.handlers.render_init = Append(@, Pointer(r.sc.render_init_id)),
            !.handlers.render_complete =
                Append(@, Pointer(r.sc.render_complete_id)),
            !.handlers.render_cancel =
                Append(@, Pointer(r.sc.render_complete_id))]

\* __fix_write_still: the last properties of render.render get write_still
\* False, and a new function fix_write_still waits in depsgraph_update_post.
fix_write_still(r) ==
    IF Raised(r) THEN r
    ELSE [NewFunction(r, "fix_write_still") EXCEPT
            !.host.write_still = FALSE,
            !.handlers.depsgraph_update_post = Append(@, Len(r.host.heap) + 1)]

\* __timer_add
timer_add(r) ==
    IF Raised(r) THEN r
    ELSE [r EXCEPT !.host.timers = @ \cup {r.host.timer + 1},
                   !.host.timer = @ + 1,
                   !.self.timer = r.host.timer + 1]

\* __timer_remove: event_timer_remove three times.  The first call removes the
\* timer; the host finds the timer of the other two nowhere, and an exception
\* it raised would be caught and printed.
timer_remove(r) ==
    IF Raised(r) THEN r
    ELSE [r EXCEPT !.host.timers = @ \ {r.self.timer}]

\* __frames
frames(sc) == [i \in 1..(sc.frame_end + 1 - sc.frame_start) |->
                  sc.frame_start + i - 1]

\* __set_path
set_path(r, frame) ==
    IF Raised(r) THEN r
    ELSE [r EXCEPT !.sc.filepath = r.self.render_path \o Format04d(frame)]

\* __fr_change_off
fr_change_off(r) ==
    IF Raised(r) THEN r
    ELSE IF r.sc.frame_change_id = 0 THEN Raise(r, "ValueError")
    ELSE IF r.self.frame_change # Pointer(r.sc.frame_change_id)
    THEN Raise(r, "AssertionError")
    ELSE [r EXCEPT !.handlers.frame_change_post =
                        Removed(@, r.self.frame_change)]

\* __fr_change_on
fr_change_on(r) ==
    IF Raised(r) THEN r
    ELSE IF r.sc.frame_change_id = 0 THEN Raise(r, "ValueError")
    ELSE IF In(r.handlers.frame_change_post, Pointer(r.sc.frame_change_id))
    THEN [r EXCEPT !.self.frame_change = Pointer(r.sc.frame_change_id)]
    ELSE [r EXCEPT !.self.frame_change = Pointer(r.sc.frame_change_id),
                   !.handlers.frame_change_post =
                        Append(@, Pointer(r.sc.frame_change_id))]

\* __set_new_frame (scene.update_tag() asks the host for an update of the
\* dependency graph, which the host makes when it pleases)
set_new_frame(r) ==
    IF Raised(r) THEN r
    ELSE IF r.self.frames = <<>> THEN Raise(r, "IndexError")
    ELSE fr_change_off(
            frame_set(
                fr_change_on(
                    set_path([r EXCEPT !.self.frames = Tail(@)],
                             Head(r.self.frames))),
                Head(r.self.frames)))

\* bpy.ops.render.render('INVOKE_DEFAULT', animation=False, write_still=True):
\* the host queues a render job of the current frame unless it has one.
render_render(r) ==
    IF r.host.job # "NONE" THEN r
    ELSE [Noted(r, "render") EXCEPT !.host.job = "QUEUED",
                                    !.host.stored = FALSE]

\* __render_new_frame
render_new_frame(r) ==
    IF Raised(r) THEN r
    ELSE render_render([r EXCEPT !.self.render_started = TRUE])

\* A clean-up that leaves the callbacks of the instance in the render lists.
CleanupKeepingCallbacks(r) ==
    fix_write_still(
        post_render_handlers_append(
            fr_change_on(
                fr_change_off(
                    timer_remove(
                        frame_set([r EXCEPT !.sc.filepath = r.self.render_path],
                                  r.self.frame))))))

\* __cleanup
cleanup(r) ==
    fix_write_still(
        post_render_handlers_append(
            post_render_handlers_clear(
                fr_change_on(
                    fr_change_off(
                        timer_remove(
                            frame_set([r EXCEPT !.sc.filepath = r.self.render_path],
                                      r.self.frame)))))))

\* __structure
structure(r) ==
    IF r.sc.frame_change_id = 0 THEN Raise(r, "ValueError")
    ELSE timer_add(
            [pre_render_handlers_append(
                pre_render_handlers_clear(
                    [r EXCEPT !.self.render_path = r.sc.filepath,
                              !.self.frame = r.sc.frame_current,
                              !.self.frames = frames(r.sc),
                              !.self.frame_change = Pointer(r.sc.frame_change_id)]))
             EXCEPT !.self.rendering = FALSE,
                    !.self.render_started = FALSE,
                    !.self.render_cancelled = FALSE,
                    !.self.render_finished = TRUE])

\* What modal returns for a TIMER event, with the world it leaves.
Returned(r, ret) == [r |-> r, ret |-> ret]

\* A timer step that asks for render_finished before it asks whether the
\* render it launched has started.
OnTimerFinishedFirst(r) ==
    IF r.self.render_cancelled THEN Returned(cleanup(r), "FINISHED")
    ELSE IF r.self.render_finished
    THEN IF Len(r.self.frames) > 0
         THEN Returned(render_new_frame(set_new_frame(r)), "PASS_THROUGH")
         ELSE Returned(cleanup(r), "FINISHED")
    ELSE IF r.self.render_started /\ ~r.self.rendering
    THEN Returned(render_new_frame(r), "PASS_THROUGH")
    ELSE Returned(r, "PASS_THROUGH")

OnTimer(r) ==
    IF r.self.render_cancelled THEN Returned(cleanup(r), "FINISHED")
    ELSE IF r.self.render_started /\ ~r.self.rendering
    THEN Returned(render_new_frame(r), "PASS_THROUGH")
    ELSE IF r.self.render_finished
    THEN IF Len(r.self.frames) > 0
         THEN Returned(render_new_frame(set_new_frame(r)), "PASS_THROUGH")
         ELSE Returned(cleanup(r), "FINISHED")
    ELSE Returned(r, "PASS_THROUGH")

\* STACKS_OT_RenderAnimation.modal
modal(r, event) ==
    IF event = "ESC" THEN Returned(cleanup(r), "FINISHED")
    ELSE IF event = "TIMER" THEN OnTimer(r)
    ELSE Returned(r, "PASS_THROUGH")

\* STACKS_render_init, the function r_init of render_init
STACKS_render_init(r) ==
    IF r.sc.render_init_id = 0 \/ r.sc.frame_change_id = 0 \/ ~r.sc.animatable
    THEN Raise(r, "AssertionError")
    ELSE [r EXCEPT !.handlers.frame_change_post =
                        Removed(@, Pointer(r.sc.frame_change_id))]

\* STACKS_render_complete, the function complete of render_complete and
\* render_cancel: a new function frame_change takes the place of the old one.
STACKS_render_complete(r) ==
    IF ~r.sc.animatable THEN Raise(r, "AssertionError")
    ELSE [NewFunction(r, "frame_change") EXCEPT
            !.sc.frame_change_id = Len(r.host.heap) + 1,
            !.handlers.frame_change_post = Append(@, Len(r.host.heap) + 1)]

\* STACKS_animatable with "Animatable" on: three new functions, their ids in
\* the scene, the functions in the lists.
STACKS_animatable(r) ==
    [r EXCEPT
        !.host.heap = @ \o <<[name |-> "anim", self |-> 0],
                             [name |-> "complete", self |-> 0],
                             [name |-> "r_init", self |-> 0]>>,
        !.sc.animatable = TRUE,
        !.sc.frame_change_id = Len(r.host.heap) + 1,
        !.sc.render_complete_id = Len(r.host.heap) + 2,
        !.sc.render_init_id = Len(r.host.heap) + 3,
        !.handlers.frame_change_post = Append(@, Len(r.host.heap) + 1),
        !.handlers.render_cancel = Append(@, Len(r.host.heap) + 2),
        !.handlers.render_complete = Append(@, Len(r.host.heap) + 2),
        !.handlers.render_init = Append(@, Len(r.host.heap) + 3)]

\* render_pre, render_cancel and render_complete of
\* __pre_render_handlers_append, which write the instance their lambda holds.
render_pre(self) ==
    [self EXCEPT !.rendering = TRUE, !.render_finished = FALSE]

render_cancel(self) ==
    [self EXCEPT !.rendering = FALSE, !.render_started = FALSE,
                 !.render_cancelled = TRUE, !.render_finished = TRUE]

\* A render_complete that does not report the render finished.
RenderCompleteUnfinished(self) ==
    [self EXCEPT !.rendering = FALSE, !.render_started = FALSE]

render_complete(self) ==
    [self EXCEPT !.rendering = FALSE, !.render_started = FALSE,
                 !.render_finished = TRUE]

\* The function fix_write_still of __fix_write_still
FixWriteStill(r, f) ==
    IF ~r.host.write_still THEN r
    ELSE [r EXCEPT !.host.write_still = FALSE,
                   !.handlers.depsgraph_update_post = Removed(@, f)]

\* The host calls the function f of a handler list; an instance that is gone
\* is written without effect, and an exception is printed and dropped.
HandlerCalled(r, f) ==
    LET fn == r.host.heap[f]
        own == fn.self = r.run
    IN  CASE fn.name = "r_init" -> [STACKS_render_init(r) EXCEPT !.exc = "none"]
          [] fn.name = "complete" ->
                [STACKS_render_complete(r) EXCEPT !.exc = "none"]
          [] fn.name = "render_pre" /\ own ->
                [r EXCEPT !.self = render_pre(r.self)]
          [] fn.name = "render_cancel" /\ own ->
                [r EXCEPT !.self = render_cancel(r.self)]
          [] fn.name = "render_complete" /\ own ->
                [r EXCEPT !.self = render_complete(r.self)]
          [] fn.name = "fix_write_still" -> FixWriteStill(r, f)
          [] OTHER -> r

\* The host calls the functions of a list by their position, the list being
\* read again after every call.
RECURSIVE CallFrom(_, _, _)
CallFrom(r, list, pos) ==
    IF pos > Len(r.handlers[list]) THEN r
    ELSE CallFrom(HandlerCalled(r, r.handlers[list][pos]), list, pos + 1)

\* The handlers commit what they wrote.
Rendered(op, rr, running, ret) ==
  \E r \in {rr} :
    /\ scene' = r.sc
    /\ handlers' = r.handlers
    /\ host' = r.host
    /\ render' = [self |-> r.self, modal |-> running, ret |-> ret,
                  runs |-> r.run]
    /\ log' = [log EXCEPT !.events = r.events]
    /\ hist' = [hist EXCEPT !.op = op, !.raised = Raised(r)]
    /\ UNCHANGED <<objects, meshes, context>>

\* The host ends an operator whose method raised.
Finished(op, res) ==
    \E done \in {res} :
        Rendered(op, done.r,
                 ~Raised(done.r) /\ done.ret # "FINISHED",
                 IF Raised(done.r) THEN "CANCELLED" ELSE done.ret)

\* The user presses "Render Animation" (poll: animatable and frame_change_id)
\* while no instance runs and the host renders nothing.
Invoke ==
    /\ render.runs < MaxRenders
    /\ ~render.modal
    /\ host.job = "NONE"
    /\ scene.animatable /\ scene.frame_change_id # 0
    /\ Finished("execute",
                Returned(structure([RenderWorld EXCEPT
                                       !.self = STACKS_OT_RenderAnimation,
                                       !.run = render.runs + 1,
                                       !.events = <<>>]),
                         "RUNNING_MODAL"))

\* A timer of the window fires.
Tick ==
    /\ render.modal
    /\ host.timers # {}
    /\ Finished("timer", modal(RenderWorld, "TIMER"))

\* The user presses Esc.
Esc ==
    /\ render.modal
    /\ Finished("esc", modal(RenderWorld, "ESC"))

\* The render job starts: the host calls render_init and render_pre.
RenderStarts ==
    /\ host.job = "QUEUED"
    /\ Rendered("render_pre",
                CallFrom(CallFrom([RenderWorld EXCEPT !.host.job = "RENDERING"],
                                  "render_init", 1),
                         "render_pre", 1),
                render.modal, render.ret)

\* The render job is done: the host calls render_complete.
RenderCompletes ==
    /\ host.job = "RENDERING"
    /\ Rendered("render_complete",
                CallFrom(Noted([RenderWorld EXCEPT !.host.job = "NONE"],
                               "complete"),
                         "render_complete", 1),
                render.modal, render.ret)

\* The render job is cancelled (Esc in the render window, the window closed):
\* the host calls render_cancel.
RenderCancels ==
    /\ host.job # "NONE"
    /\ Rendered("render_cancel",
                CallFrom(Noted([RenderWorld EXCEPT !.host.job = "NONE"],
                               "cancel"),
                         "render_cancel", 1),
                render.modal, render.ret)

\* "write_still becomes True once the current operator is finished"
\* (__fix_write_still): the host stores the properties of the last call of
\* render.render.
StoreLast ==
    /\ ~render.modal
    /\ ~host.stored
    /\ Rendered("store_last",
                [RenderWorld EXCEPT !.host.write_still = TRUE,
                                    !.host.stored = TRUE],
                render.modal, render.ret)

\* The host has updated the dependency graph and calls
\* depsgraph_update_post.
DepsgraphUpdated ==
    /\ host.write_still
    /\ handlers.depsgraph_update_post # <<>>
    /\ Rendered("depsgraph_update_post",
                CallFrom(RenderWorld, "depsgraph_update_post", 1),
                render.modal, render.ret)

\* The host of the animation: the function objects by id(), the timers of the
\* window manager, the render job and the last properties of render.render.
RenderHost ==
    [heap |-> <<>>, timers |-> {}, timer |-> 0, job |-> "NONE",
     write_still |-> FALSE, stored |-> TRUE]

\* An empty scene with a timeline (the host keeps frame_start <= frame_end)
\* and an output path, before "Animatable" is turned on.
Timeline(frame_start, frame_end, frame_current) ==
    [stacks |-> <<>>, stacks_active |-> 0,
     frame_start |-> frame_start, frame_end |-> frame_end,
     frame_current |-> frame_current, filepath |-> <<"//">>,
     animatable |-> FALSE, frame_change_id |-> 0, render_complete_id |-> 0,
     render_init_id |-> 0]

Animated(sc) ==
    STACKS_animatable([sc |-> sc, handlers |-> NoHandlers,
                       self |-> STACKS_OT_RenderAnimation, run |-> 0,
                       host |-> RenderHost, events |-> <<>>, exc |-> "none"])

\* The user has turned "Animatable" on.
InitRender ==
    /\ \E frame_start \in 1..MaxFrame :
       \E frame_end \in frame_start..MaxFrame :
       \E frame_current \in {1, MaxFrame} :
            /\ scene = Animated(Timeline(frame_start, frame_end,
                                         frame_current)).sc
            /\ handlers = Animated(Timeline(frame_start, frame_end,
                                            frame_current)).handlers
            /\ host = Animated(Timeline(frame_start, frame_end,
                                        frame_current)).host
    /\ objects = [o \in ObjIds |-> Absent]
    /\ meshes = [m \in MeshIds |-> NoMesh]
    /\ context = [object |-> NoObject, mode |-> "OBJECT"]
    /\ log = NoLog
    /\ hist = NoHist
    /\ render = NoRender

NextRender ==
    \/ Invoke
    \/ Tick
    \/ Esc
    \/ RenderStarts
    \/ RenderCompletes
    \/ RenderCancels
    \/ StoreLast
    \/ DepsgraphUpdated

SpecRender == InitRender /\ [][NextRender]_vars

\* The animation nobody interrupts: no Esc, no cancelled render, the timer
\* keeps firing and the host starts and finishes every render it queued.
NextRenderAlone ==
    \/ Invoke
    \/ Tick
    \/ RenderStarts
    \/ RenderCompletes
    \/ StoreLast
    \/ DepsgraphUpdated

SpecRenderAlone ==
    /\ InitRender
    /\ [][NextRenderAlone]_vars
    /\ WF_vars(Tick)
    /\ WF_vars(RenderStarts)
    /\ WF_vars(RenderCompletes)

-------------------------------------------------------------------------------
(* Claims about the registry *)

RemovedAt == hist.k

SlotsBefore == {p \in ObjIds \X (1..MaxSlots) :
                  /\ hist.objects[p[1]].exists
                  /\ hist.objects[p[1]].linked
                  /\ hist.objects[p[1]].type = "MESH"
                  /\ p[2] \in DOMAIN hist.objects[p[1]].stacks_c}

IndexBefore(p) == hist.objects[p[1]].stacks_c[p[2]].stack_index

IndexNow(p) == objects[p[1]].stacks_c[p[2]].stack_index

\* C1: when project_stack_remove removes the scene stack at index k, every
\* object slot whose backup stack_index was greater than k is one lower
\* afterwards, and every slot whose stack_index was below k is unchanged.
C1_RemoveShiftsSlotsAbove ==
    hist.op = "project_stack_remove" =>
        \A p \in SlotsBefore :
            /\ IndexBefore(p) > RemovedAt => IndexNow(p) = IndexBefore(p) - 1
            /\ IndexBefore(p) < RemovedAt => IndexNow(p) = IndexBefore(p)

\* STACKS_ExecuteStacks._stacks: a STACK slot takes part in the execution
\* unless len(sc_stacks) <= stack.stack_index.
ReferencesNoStack(stack_index) == Len(scene.stacks) <= stack_index

\* C2: after the scene stack at index k is removed, every object slot whose
\* stack_index was exactly k resolves to "None": its index is the None
\* sentinel (the new catalog length), its name is "None", and execution
\* treats it as referencing no stack.
C2_RemovedSlotFallsBackToNone ==
    hist.op = "project_stack_remove" =>
        \A p \in SlotsBefore :
            IndexBefore(p) = RemovedAt =>
                /\ IndexNow(p) = Len(scene.stacks)
                /\ objects[p[1]].stacks[p[2]].stack = Len(scene.stacks)
                /\ objects[p[1]].stacks[p[2]].name = "None"
                /\ ReferencesNoStack(IndexNow(p))

-------------------------------------------------------------------------------
(* Claims about the execution of stacks *)

\* The object the last handler ran for.
Top == hist.context.object

Last == Len(log.events)

\* The handlers that run STACKS_ExecuteStacks for the active object: by
\* stacks.update, or by upd_ops after an edit of a setting.
RunHandlers == {"update", "repeat", "interp_type"}

\* The bodies a handler entered itself (and not from inside another body).
Entries(events) ==
    {i \in DOMAIN events : events[i].ev = "enter" /\ events[i].depth = 0}

\* The events are those of one run of STACKS_ExecuteStacks, from its guard to
\* the end of restore, with whatever its property writes triggered.
SingleRun(events) ==
    /\ events # <<>>
    /\ events[1].ev = "enter"
    /\ events[Len(events)].ev = "exit"
    /\ events[Len(events)].depth = 1
    /\ Cardinality(Entries(events)) = 1

\* The last handler was one run of STACKS_ExecuteStacks for Top, and the run
\* went to completion.
RunCompleted ==
    /\ hist.op \in RunHandlers
    /\ ~hist.raised
    /\ SingleRun(log.events)

\* The events of the run that have Top as the active object.
TopEvents(ev) ==
    {i \in DOMAIN log.events : log.events[i].ev = ev /\ log.events[i].ob = Top}

\* The entry a "write" or "call" event is about, in a catalog.
EntryOf(stacks, e) == stacks[e.args[1][1] + 1].ops[e.args[2][1]]

\* C3: after STACKS_ExecuteStacks ran to completion, every operator field the
\* run wrote interpolated values to holds the value it had before the run, and
\* the editor mode is the one the run started in.
C3_RestoresFieldsAndMode ==
    RunCompleted =>
        /\ \A i \in TopEvents("write") :
              EntryOf(scene.stacks, log.events[i])[log.events[i].cmd] =
              EntryOf(hist.stacks, log.events[i])[log.events[i].cmd]
        /\ context.mode = hist.context.mode

\* The values a "call" event shows when the entry is at the values it had
\* before the run.
BaseValues(e) ==
    <<e.args[1], e.args[2],
      Float(EntryOf(hist.stacks, e).gen_subd_cuts),
      EntryOf(hist.stacks, e).gen_subd_smooth,
      EntryOf(hist.stacks, e).gen_grab,
      EntryOf(hist.stacks, e).gen_scale>>

\* C4: a unit of a slot with repeat = 1, or of an entry whose interp_type is
\* CONSTANT, is not interpolated: the run writes no field of a CONSTANT entry,
\* every such unit is invoked with the base values of its entry, and the
\* fields hold their original values after the run.
C4_NoInterpolationKeepsBaseValues ==
    RunCompleted =>
        /\ \A i \in TopEvents("write") :
              EntryOf(scene.stacks, log.events[i]).interp_type # "CONSTANT"
        /\ \A i \in TopEvents("call") :
              log.events[i].cmd = "plain" =>
                  log.events[i].args = BaseValues(log.events[i])

\* A (command, parameter values) invocation, or the write of an interpolated
\* value, of the run for Top.
IsInvocation(e) == e.ev \in {"cmd", "failed", "write"} /\ e.ob = Top

Invocations(events) == SelectSeq(events, IsInvocation)

\* C5: two consecutive executions of the stacks of an object with unchanged
\* settings and seeds issue the same sequence of (command, parameter values)
\* invocations and write the same interpolated values.
C5_ConsecutiveRunsIssueSameCommands ==
    (/\ RunCompleted
     /\ hist.op = "update"
     /\ log.before.op \in RunHandlers
     /\ ~log.before.raised
     /\ SingleRun(log.before.events))
        => Invocations(log.events) = Invocations(log.before.events)

Enters == {i \in DOMAIN log.events : log.events[i].ev = "enter"}

\* Event k is the end of the body that event i entered: the first return or
\* exception at the depth of that body.
Leaves(k, i) ==
    /\ k > i
    /\ log.events[k].ev \in {"exit", "raise"}
    /\ log.events[k].depth = log.events[i].depth + 1

\* The body entered at event i is active when event j happens.
ActiveAt(i, j) == i < j /\ ~\E k \in DOMAIN log.events : k < j /\ Leaves(k, i)

\* C6: while STACKS_ExecuteStacks runs for an object, a nested
\* STACKS_ExecuteStacks for the same object, triggered by the update callback
\* of a property write, returns at its guard: no body is entered for an object
\* that has a body active, so at most one execution body per object is active,
\* and only a body regenerates a mesh, writes a field or invokes a command.
C6_GuardKeepsOneBodyPerObject ==
    /\ \A i \in Enters : \A j \in Enters :
          (ActiveAt(i, j) => log.events[j].ob # log.events[i].ob)
    /\ \A j \in DOMAIN log.events :
          log.events[j].ev \in {"regenerate", "body", "write", "call", "cmd",
                                "failed"}
              => log.events[j].depth > 0

\* A property write of a running body called upd_ops, which reached the guard
\* for the object of that body from inside the run of another object, and
\* returned there.
C6_NestedTriggerSkipped ==
    \E i \in Enters : \E j \in DOMAIN log.events :
        /\ log.events[j].ev = "skip"
        /\ log.events[j].ob = log.events[i].ob
        /\ log.events[j].depth >= 2
        /\ ActiveAt(i, j)

\* The objects that have a reference.
StackedObjects ==
    {o \in ObjIds : objects[o].exists /\ objects[o].ob_reference # NoObject}

\* C7: in every state of the lifecycle each stacked object has exactly one
\* reference: its ob_reference is an object whose ob_stacks points back to it,
\* the reference has no ob_reference of its own, and no two stacked objects
\* have the same reference.
C7_OneReferencePerStackedObject ==
    \A o \in StackedObjects :
        /\ objects[objects[o].ob_reference].exists
        /\ objects[objects[o].ob_reference].ob_stacks = o
        /\ objects[objects[o].ob_reference].ob_reference = NoObject
        /\ \A p \in StackedObjects :
              p # o => objects[p].ob_reference # objects[o].ob_reference

\* A handler stacked an object for the first time (its copy did not exist
\* before) while another object was stacked already, and the original it
\* copied is now the reference of the copy.
C7_StackedNextToStacked ==
    \E o \in StackedObjects : \E p \in StackedObjects :
        /\ p # o
        /\ ~hist.objects[o].exists
        /\ hist.objects[p].exists
        /\ hist.objects[objects[o].ob_reference].exists
        /\ hist.objects[objects[o].ob_reference].ob_stacks = NoObject

\* The last handler was stacks.update for an object that had no reference and
\* is of a type the host extracts no mesh from, and STACKS_ExecuteStacks
\* passed its guard.
ExtractionFailed ==
    /\ hist.op = "update"
    /\ log.events # <<>>
    /\ log.events[1].ev = "enter"
    /\ hist.objects[Top].ob_reference = NoObject
    /\ ~HasGeometry(hist.objects[Top].type)

\* C8: when the object setup of STACKS_ExecuteStacks returns no object, the
\* user error is reported, no unit is called and no mesh command invoked,
\* live_update of the object is true again, the editor mode is the one the
\* execution started in, and the object is as unstacked as before: no object
\* was created, no reference assigned, no name changed.
C8_FailedExtractionLeavesObjectUnstacked ==
    ExtractionFailed =>
        /\ \E i \in DOMAIN log.events :
              /\ log.events[i].ev = "warning"
              /\ log.events[i].cmd = "Can not create mesh from this type of object"
        /\ \A i \in DOMAIN log.events : log.events[i].ev \notin {"call", "cmd"}
        /\ objects[Top].live_update
        /\ context.mode = hist.context.mode
        /\ objects[Top].ob_reference = NoObject
        /\ \A o \in ObjIds :
              /\ objects[o].exists = hist.objects[o].exists
              /\ objects[o].name = hist.objects[o].name

\* C9: when a mesh command of a unit raises a recoverable host error, the
\* error is caught and reported as a warning, the remaining units are still
\* invoked and the run ends with restore: live_update is true again.
C9_HostErrorCaughtAndRunRestored ==
    (/\ hist.op = "update"
     /\ Last > 0
     /\ log.events[1].ev = "enter"
     /\ TopEvents("failed") # {})
        => /\ ~hist.raised
           /\ log.events[Last].ev = "exit"
           /\ objects[Top].live_update
           /\ \A i \in TopEvents("failed") :
                 /\ i < Last
                 /\ log.events[i + 1].ev = "warning"

StaleSelection ==
    "Can not set selection. The stored vertex data indices are out of range"

\* The commands of the run after event i leave the select flags alone.
SelectionKeptAfter(i) ==
    \A j \in DOMAIN log.events :
        (j > i /\ log.events[j].ev = "cmd") =>
            log.events[j].cmd = "transform.translate"

\* C10: when a SELECT slot restores a snapshot with an index out of range, the
\* error is caught, a warning is reported, the selection step selects nothing
\* and execution continues with the following stacks.
C10_StaleSelectionSkipped ==
    \A i \in TopEvents("warning") :
        (/\ hist.op = "update"
         /\ log.events[i].cmd = StaleSelection
         /\ SelectionKeptAfter(i))
            => /\ ~hist.raised
               /\ \E j \in TopEvents("call") : j > i
               /\ meshes[objects[Top].data].select = NoneSelected

-------------------------------------------------------------------------------
(* Claims about the order of execution *)

\* A slot whose stack the execution runs: enabled, and a stored selection or
\* a reference to a stack of the catalog.
SlotRuns(stacks, slot) ==
    /\ slot.enabled
    /\ slot.type = "SELECT" \/ slot.stack_index < Len(stacks)

\* An entry that makes a unit: enabled, type other than NONE, subtype other
\* than SKIP.
EntryRuns(op) ==
    /\ op.enabled
    /\ op.operator_type # "NONE"
    /\ opfunc(op) # "SKIP"

\* What a "write" or "call" event of the log says about the order: the
\* property and value written, or the unit invoked.
Step(e) ==
    IF e.ev = "write" THEN <<"write", e.cmd, e.args>>
    ELSE IF e.cmd = "select" THEN <<"call", "select", <<>>>>
    ELSE <<"call", "unit", <<e.args[1], e.args[2]>>>>

\* The writes of iteration i for entry k of scene stack stack_index, when the
\* unit is interpolatable for the slot.
WritesOf(op, k, slot, i) ==
    IF ~repeatable(slot.repeat, op.interp_type, op.operator_type, opfunc(op))
    THEN <<>>
    ELSE [j \in DOMAIN INTERPOLATE[op.operator_type][opfunc(op)] |->
            <<"write", INTERPOLATE[op.operator_type][opfunc(op)][j].src,
              <<Float(slot.stack_index), Float(k),
                Shown(INTERPOLATE[op.operator_type][opfunc(op)][j].src,
                      Stored(INTERPOLATE[op.operator_type][opfunc(op)][j].src,
                             STACKS_PropValues(op,
                                 INTERPOLATE[op.operator_type][opfunc(op)],
                                 1, slot.repeat)[j].values[i + 1]))>> >>]

\* The steps the claim asks for, from entry k of iteration i of slot s on:
\* slots in slot order, iterations in ascending order, the units of an
\* iteration in list order, the writes of a unit before its invocation.
RECURSIVE StepsFrom(_, _, _, _, _)
StepsFrom(stacks, slots, s, i, k) ==
    IF s > Len(slots) THEN <<>>
    ELSE IF ~SlotRuns(stacks, slots[s]) \/ i >= slots[s].repeat
    THEN StepsFrom(stacks, slots, s + 1, 0, 1)
    ELSE IF slots[s].type = "SELECT"
    THEN <<<<"call", "select", <<>>>>>> \o StepsFrom(stacks, slots, s, i + 1, 1)
    ELSE IF k > Len(stacks[slots[s].stack_index + 1].ops)
    THEN StepsFrom(stacks, slots, s, i + 1, 1)
    ELSE (IF EntryRuns(stacks[slots[s].stack_index + 1].ops[k])
          THEN WritesOf(stacks[slots[s].stack_index + 1].ops[k], k, slots[s], i)
               \o <<<<"call", "unit",
                      <<Float(slots[s].stack_index), Float(k)>>>>>>
          ELSE <<>>)
         \o StepsFrom(stacks, slots, s, i, k + 1)

\* The invocations of the body the handler entered for Top, and the writes
\* that precede an invocation (the writes of restore follow the last one).
Invoked == {i \in TopEvents("call") : log.events[i].depth = 1}

StepIndices ==
    Invoked \cup {i \in TopEvents("write") :
                    log.events[i].depth = 1 /\ \E j \in Invoked : j > i}

StepsTaken ==
    [n \in 1..Cardinality(StepIndices) |->
        Step(log.events[CHOOSE i \in StepIndices :
                            Cardinality({j \in StepIndices : j <= i}) = n])]

\* stacks.update passed the guard of STACKS_ExecuteStacks for a stacked
\* object.
UpdateEntered ==
    /\ hist.op = "update"
    /\ log.events # <<>>
    /\ log.events[1].ev = "enter"
    /\ hist.objects[Top].ob_reference # NoObject

\* C11: STACKS_ExecuteStacks processes the enabled slots of the object in
\* slot order, skipping slots that reference no scene stack; for a stack with
\* repeat R it invokes exactly the entries that are enabled with type other
\* than NONE and subtype other than SKIP, each R times, all units of an
\* iteration in list order before any unit of the next; the i-th
\* interpolated value of each property of an interpolatable unit is written
\* before the i-th invocation of the unit.
C11_SlotOrderIterationMajor ==
    UpdateEntered =>
        StepsTaken = StepsFrom(hist.stacks, hist.objects[Top].stacks_c, 1, 0, 1)

-------------------------------------------------------------------------------
(* Claims about the interpolated values *)

\* The operator entry the slot of Top ran, and the repeat count of the slot,
\* as they were when the handler started.
EntryRun == hist.stacks[1].ops[1]

RepeatRun == hist.objects[Top].stacks_c[1].repeat

\* The values the body wrote to a property before an invocation, in order.
WrittenTo(prop) ==
    [n \in 1..Cardinality({i \in StepIndices : log.events[i].cmd = prop}) |->
        log.events[CHOOSE i \in StepIndices :
            /\ log.events[i].cmd = prop
            /\ Cardinality({j \in StepIndices :
                    j <= i /\ log.events[j].cmd = prop}) = n].args[3]]

\* C12: one GENERATE/SUBDIVIDE entry, repeat 5, curve BEZIER with ease INOUT,
\* ease-in 0, ease-out 1, direction STRAIGHT, value_min_int 1 and
\* value_max_int 5: the values written to gen_subd_cuts are 1, 1, 3, 5, 5 and
\* gen_subd_cuts holds its original value after the run.
C12_EasedCutsExample ==
    (/\ UpdateEntered
     /\ RepeatRun = 5
     /\ EntryRun.interp_type = "BEZIER"
     /\ EntryRun.interp_ease = "INOUT"
     /\ EntryRun.interpolate = "STRAIGHT"
     /\ EntryRun.interp_ease_in = Float(0)
     /\ EntryRun.interp_ease_out = Float(1)
     /\ EntryRun.value_min_int = 1
     /\ EntryRun.value_max_int = 5)
        => /\ WrittenTo("gen_subd_cuts") =
                <<Float(1), Float(1), Float(3), Float(5), Float(5)>>
           /\ scene.stacks[1].ops[1].gen_subd_cuts = EntryRun.gen_subd_cuts

\* The values STACKS_PropValues computes for item j of the propdict of the
\* entry, as floats.
ValuesRun(j) ==
    [i \in 1..RepeatRun |->
        Shown(INTERPOLATE.GENERATE.SUBDIVIDE[j].src,
              STACKS_PropValues(EntryRun, INTERPOLATE.GENERATE.SUBDIVIDE,
                                1, RepeatRun)[j].values[i])]

\* The bound of the range of item j, as a float.
BoundRun(j, end) ==
    Shown(INTERPOLATE.GENERATE.SUBDIVIDE[j].src,
          EntryRun[INTERPOLATE.GENERATE.SUBDIVIDE[j][end]])

\* C13: with ease-in 0 and ease-out 1, for every repeat count R >= 2, every
\* ease and every scalar range with min <= max, the R eased values of
\* iterations 0..R-1 are non-decreasing (non-increasing when the direction is
\* REVERSED) and lie between min and max inclusive.
C13_EasedValuesMonotonic ==
    (/\ UpdateEntered
     /\ EntryRun.interp_type = "BEZIER"
     /\ EntryRun.interp_ease_in = Float(0)
     /\ EntryRun.interp_ease_out = Float(1)
     /\ RepeatRun >= 2)
        => \A j \in DOMAIN INTERPOLATE.GENERATE.SUBDIVIDE :
              /\ \A i \in 1..RepeatRun :
                    /\ FLeq(BoundRun(j, "min"), ValuesRun(j)[i])
                    /\ FLeq(ValuesRun(j)[i], BoundRun(j, "max"))
              /\ \A i \in 1..RepeatRun - 1 :
                    IF EntryRun.interpolate = "STRAIGHT"
                    THEN FLeq(ValuesRun(j)[i], ValuesRun(j)[i + 1])
                    ELSE FLeq(ValuesRun(j)[i + 1], ValuesRun(j)[i])

-------------------------------------------------------------------------------
(* Claims about the slots of an object and their names *)

\* The slots of an object are paired: both collections have the same length,
\* every enum value is an item of the catalog and equals the backup index of
\* its position, and every index field is the position (counted from 0).
Paired(ob, stacks) ==
    /\ Len(ob.stacks) = Len(ob.stacks_c)
    /\ \A i \in DOMAIN ob.stacks :
          /\ ob.stacks[i].stack \in EnumItems(stacks)
          /\ i \in DOMAIN ob.stacks_c
          /\ ob.stacks[i].stack = ob.stacks_c[i].stack_index
          /\ ob.stacks[i].index = i - 1
          /\ ob.stacks_c[i].index = i - 1

\* C14: moving a slot of the object up or down (STACKS_ObSlotMove) and
\* duplicating a stack (STACKS_OT_Duplicate) preserve the pairing of the
\* slots of the object: afterwards the enum value of every position equals
\* the backup index of the position, the two collections have the same
\* length and every index field equals its position.
C14_MoveAndDuplicateKeepPairing ==
    (/\ hist.op \in {"slot_ob_move", "duplicate"}
     /\ Paired(hist.objects[Top], hist.stacks))
        => Paired(objects[Top], scene.stacks)

\* A slot moved, or a duplicate was made for an object with two slots that
\* reference different stacks.
C14_SlotMovedOrStackDuplicated ==
    /\ hist.op \in {"slot_ob_move", "duplicate"}
    /\ Paired(hist.objects[Top], hist.stacks)
    /\ Len(objects[Top].stacks) = 2
    /\ objects[Top].stacks[1].stack # objects[Top].stacks[2].stack
    /\ objects[Top].stacks # hist.objects[Top].stacks

\* The name a slot has when it is named after the stack its backup index
\* references.
NameOfReferenced(stacks, slot) ==
    IF slot.stack_index < Len(stacks) THEN stacks[slot.stack_index + 1].name
    ELSE "None"

\* The operations of the registry the claim lists.
RegistryOps ==
    {"new", "duplicate", "project_stack_remove", "rename", "slot_ob_move", "pick"}

\* C15: after a new stack, a duplicate, the removal or the renaming of a
\* stack, a slot move or the pick of a stack in a slot, the name of every
\* slot of every object equals the current name of the scene stack the slot
\* references, or "None" when it references no stack.
C15_SlotNamesFollowStacks ==
    hist.op \in RegistryOps =>
        \A o \in ObjIds :
            objects[o].exists =>
                \A i \in Zip(objects[o]) :
                    objects[o].stacks[i].name =
                        NameOfReferenced(scene.stacks, objects[o].stacks_c[i])

-------------------------------------------------------------------------------
(* Claims about Edit Original, clear and apply *)

\* The object that was active when the last handler started.
EditOb == hist.context.object

\* "Edit Original" was pressed on a stacked object.
EditOn ==
    /\ hist.op = "edit_reference"
    /\ hist.objects[EditOb].ob_reference # NoObject
    /\ ~hist.objects[EditOb].edit_reference

\* "Edit Original" was released while the reference of a stacked object was
\* the active one.
EditOff ==
    /\ hist.op = "edit_reference"
    /\ hist.objects[EditOb].ob_reference = NoObject
    /\ hist.objects[EditOb].ob_stacks # NoObject
    /\ hist.objects[hist.objects[EditOb].ob_stacks].edit_reference

\* The handler exchanged the names of a and b.
NamesSwapped(a, b) ==
    /\ objects[a].name = hist.objects[b].name
    /\ objects[b].name = hist.objects[a].name

\* The stacks of ob were executed by the handler: its mesh was regenerated.
Regenerated(ob) ==
    \E i \in DOMAIN log.events :
        log.events[i].ev = "regenerate" /\ log.events[i].ob = ob

EditTurnedOn ==
    EditOn =>
        /\ ~objects[EditOb].live_update
        /\ context.object = hist.objects[EditOb].ob_reference
        /\ NamesSwapped(EditOb, hist.objects[EditOb].ob_reference)

EditTurnedOff ==
    EditOff =>
        /\ context.object = hist.objects[EditOb].ob_stacks
        /\ NamesSwapped(EditOb, hist.objects[EditOb].ob_stacks)
        /\ objects[hist.objects[EditOb].ob_stacks].live_update
        /\ Regenerated(hist.objects[EditOb].ob_stacks)

\* C16: turning edit_reference on for a stacked object sets its live_update
\* false, makes the reference the active object and exchanges the names of the
\* two; turning it off makes the stacked object active, exchanges the names
\* back, sets live_update true and executes the stacks again.
C16_EditReferenceRoundTrip == EditTurnedOn /\ EditTurnedOff

\* The reference of the object that was active when the last handler started.
RefOfOb == hist.objects[EditOb].ob_reference

\* stacks.clear and stacks.apply ran on a stacked object.
ClearedStacked == hist.op = "clear" /\ RefOfOb # NoObject

AppliedStacked == hist.op = "apply" /\ RefOfOb # NoObject

Unstacked(o) ==
    objects[o].ob_reference = NoObject /\ objects[o].ob_stacks = NoObject

\* After stacks.clear the reference is what is left of the pair.
ClearLeavesOriginal ==
    ClearedStacked =>
        /\ objects[RefOfOb].exists
        /\ context.object = RefOfOb
        /\ objects[RefOfOb].name = hist.objects[EditOb].name
        /\ Unstacked(RefOfOb)
        /\ objects[RefOfOb].stacks = <<>>
        /\ objects[RefOfOb].stacks_c = <<>>
        /\ objects[RefOfOb].live_update
        /\ ~objects[EditOb].exists
        /\ ~meshes[hist.objects[EditOb].data].exists

\* After stacks.apply the derived object is what is left of the pair.
ApplyLeavesDerived ==
    AppliedStacked =>
        /\ ~objects[RefOfOb].exists
        /\ ~meshes[hist.objects[RefOfOb].data].exists
        /\ objects[EditOb].exists
        /\ objects[EditOb].data = hist.objects[EditOb].data
        /\ meshes[objects[EditOb].data].exists
        /\ objects[EditOb].stacks = <<>>
        /\ objects[EditOb].stacks_c = <<>>
        /\ Unstacked(EditOb)

\* C17: after stacks.clear on a stacked object the reference is the one object
\* left of the pair: active, under the name the stacked object had, with
\* ob_reference and ob_stacks unset, no slots and live_update true, the stacked
\* object and its mesh removed.  After stacks.apply the reference and its mesh
\* are removed and the stacked object keeps its mesh, with no slots.  Either
\* way the object left has neither a reference nor a stacked object.
C17_ClearAndApplyUnstack == ClearLeavesOriginal /\ ApplyLeavesDerived

\* stacks.clear or stacks.apply ran on an object whose stacks had just been
\* executed.
C17_ClearedOrAppliedAfterUpdate ==
    /\ ClearedStacked \/ AppliedStacked
    /\ log.before.op = "update"
    /\ ~log.before.raised

-------------------------------------------------------------------------------
(* Claims about Render Animation *)

\* How often f is in the list L.
Occurs(L, f) == Cardinality({i \in DOMAIN L : L[i] = f})

\* modal has just returned FINISHED.
ModalFinished == hist.op \in {"timer", "esc"} /\ render.ret = "FINISHED"

\* What __cleanup leaves: the output path and the frame of the start, no timer
\* of the instance, the frame-change function the scene names once in
\* frame_change_post, none of the callbacks of the instance in the render
\* lists, the functions r_init and complete back in theirs.
CleanedUp ==
    /\ scene.filepath = render.self.render_path
    /\ scene.frame_current = render.self.frame
    /\ render.self.timer \notin host.timers
    /\ Occurs(handlers.frame_change_post, Pointer(scene.frame_change_id)) = 1
    /\ ~In(handlers.render_pre, render.self.render_pre)
    /\ ~In(handlers.render_cancel, render.self.render_cancel)
    /\ ~In(handlers.render_complete, render.self.render_complete)
    /\ Occurs(handlers.render_init, Pointer(scene.render_init_id)) = 1
    /\ Occurs(handlers.render_complete, Pointer(scene.render_complete_id)) = 1
    /\ Occurs(handlers.render_cancel, Pointer(scene.render_complete_id)) = 1

\* C18: whenever modal returns FINISHED (Esc, a cancelled render seen on a
\* timer event, no frame left) the clean-up has been done: output path and
\* frame restored, timer removed, the frame-change handler registered once,
\* the callbacks of the instance removed, the limiting render handlers
\* registered again.
C18_FinishedAfterCleanup == ModalFinished => CleanedUp

\* modal returned FINISHED at the end of a second animation whose frames were
\* all rendered.
C18_SecondAnimationFinished ==
    /\ ModalFinished
    /\ hist.op = "timer"
    /\ ~render.self.render_cancelled
    /\ render.runs = 2
    /\ \E i \in DOMAIN log.events : log.events[i].ev = "complete"

\* The frames __set_new_frame has set: the path of the clean-up's frame_set
\* has no frame number.
IsTaken(e) == e.ev = "frame_set" /\ e.path # render.self.render_path

Taken == SelectSeq(log.events, IsTaken)

TakenPlaces == {i \in DOMAIN log.events : IsTaken(log.events[i])}

Places(ev) == {i \in DOMAIN log.events : log.events[i].ev = ev}

\* Between two frames that were set, the render of the first was launched and
\* reported complete.
RenderedBetween(i, j) ==
    \E a \in Places("render"), b \in Places("complete") :
        /\ i < a /\ a < b /\ b < j
        /\ log.events[a].frame = log.events[i].frame
        /\ log.events[b].frame = log.events[i].frame

\* C19: the frames are set in ascending order from frame_start, none skipped
\* and none beyond frame_end, and a frame is set only after the render of the
\* frame before it was reported complete.
C19_FramesAscendingAfterComplete ==
    /\ \A i \in DOMAIN Taken :
            /\ Taken[i].frame = scene.frame_start + i - 1
            /\ Taken[i].frame <= scene.frame_end
    /\ \A i, j \in TakenPlaces : i < j => RenderedBetween(i, j)

\* Three frames were set.
C19_ThreeFramesTaken == Len(Taken) = 3

\* The frames a render was launched for.
Launched == SelectSeq(log.events, LAMBDA e : e.ev = "render")

AllLaunched ==
    /\ Len(Launched) = Len(frames(scene))
    /\ \A i \in DOMAIN Launched : Launched[i].frame = frames(scene)[i]

\* C20: with no Esc and no cancelled render, the timer firing and every render
\* finishing, an animation that was started returns FINISHED in the end, a
\* render launched for every frame of the timeline.
C20_AnimationFinishes ==
    render.modal ~> (~render.modal /\ render.ret = "FINISHED" /\ AllLaunched)

\* An animation of more than one frame has returned FINISHED.
C20_FinishedAllFrames ==
    /\ ModalFinished
    /\ AllLaunched
    /\ Len(Launched) > 1

-------------------------------------------------------------------------------
(* Claims about "Update All" *)

\* The last handler was an edit whose update callback is upd_ops, made while
\* "Update All" of the active object was on, and upd_ops returned (no
\* exception left it for the host to drop).
UpdOpsReturned ==
    /\ hist.op \in {"repeat", "interp_type"}
    /\ hist.objects[Top].update_all
    /\ Last > 0
    /\ log.events[Last].ev # "dropped"

\* Where that upd_ops remembered the active object, the selection and the mode.
Remembers ==
    {i \in DOMAIN log.events :
        log.events[i].ev = "remember" /\ log.events[i].depth = 0}

\* The objects of the view layer, before the handler and after it, that have
\* a slot whose stack_index is one of the stack indices of the active object.
Sharers ==
    {o \in ObjIds \ {Top} :
        /\ hist.objects[o].exists /\ hist.objects[o].linked
        /\ objects[o].exists /\ objects[o].linked
        /\ StackIndices(hist.objects[o]) \cap StackIndices(hist.objects[Top]) # {}}

\* The objects upd_ops made active and ran STACKS_ExecuteStacks for, after it
\* remembered at event i.
ExecutedAfter(i) ==
    {log.events[j].ob :
        j \in {k \in Enters : k > i /\ log.events[k].depth = 0}}

SelectedNow ==
    {o \in ObjIds : objects[o].exists /\ objects[o].linked /\ objects[o].select}

\* C21: when upd_ops runs with update_all on, it executes the stacks of every
\* other object of the view layer that shares a stack index with the active
\* object, and when it returns the active object, the selected objects and the
\* mode are those it found right after the execution of the active object, and
\* every object it executed has live_update true again.
C21_UpdateAllRestoresSelection ==
    UpdOpsReturned =>
        \A i \in Remembers :
            /\ Sharers \subseteq ExecutedAfter(i)
            /\ context.object = log.events[i].args[1]
            /\ SelectedNow = log.events[i].args[2]
            /\ getmode([ctx |-> context]) = log.events[i].cmd
            /\ \A o \in ExecutedAfter(i) : objects[o].live_update

\* The bodies that are active when event j happens.
ActiveBodies(j) == {i \in Enters : ActiveAt(i, j)}

\* The objects that exist after the handler.
Existing == {o \in ObjIds : objects[o].exists}

\* The exception Python raises when the nesting of calls has no end.
Unbounded ==
    \E j \in DOMAIN log.events :
        log.events[j].ev = "dropped" /\ log.events[j].cmd = "RecursionError"

\* C22: a top-level upd_ops terminates.  The property writes of execute and
\* restore call upd_ops again, and with update_all the nested call executes
\* the other objects that share the stack, but the nesting is bounded by the
\* number of objects: no body is entered for an object that has a body in
\* progress (its live_update is false), so the bodies in progress are those of
\* different objects and the recursion limit is never met.
C22_NestedUpdatesBounded ==
    hist.op \in {"repeat", "interp_type"} =>
        /\ ~Unbounded
        /\ \A j \in Enters :
              /\ \A i \in ActiveBodies(j) : \A k \in ActiveBodies(j) \cup {j} :
                    i # k => log.events[i].ob # log.events[k].ob
              /\ Cardinality(ActiveBodies(j)) = log.events[j].depth
              /\ log.events[j].depth + 1 <= Cardinality(Existing)

\* An edit ran upd_ops, a property write of the body of one object called
\* upd_ops again, which executed another object inside that body and met the
\* guard for the first object there, and the top-level call returned.
C22_NestedExecutionReturned ==
    /\ hist.op \in {"repeat", "interp_type"}
    /\ log.events[Last].ev # "dropped"
    /\ \E j \in Enters :
          /\ log.events[j].depth = 1
          /\ \E s \in DOMAIN log.events :
                /\ log.events[s].ev = "skip"
                /\ log.events[s].depth = 2

-------------------------------------------------------------------------------
(* Claims about the stack indices of the slots *)

\* The slots of the objects that exist, as (object, place in stacks_c).
BackupSlots ==
    {p \in ObjIds \X (1..MaxSlots + 1) :
        objects[p[1]].exists /\ p[2] \in DOMAIN objects[p[1]].stacks_c}

\* C23: in every state reached by adding and removing scene stacks and object
\* slots, the stack_index of every slot of every object lies between 0 and the
\* number of scene stacks, the upper bound being "None".
C23_SlotIndicesWithinCatalog ==
    \A p \in BackupSlots :
        objects[p[1]].stacks_c[p[2]].stack_index \in 0..Len(scene.stacks)

\* What a slot with this stack_index resolves to in a catalog: the place of a
\* scene stack, "None" at the length of the catalog, nothing above it.
Resolved(stacks, stack_index) ==
    IF stack_index < Len(stacks) THEN <<"stack", stack_index>>
    ELSE IF stack_index = Len(stacks) THEN <<"None">>
    ELSE <<"outside">>

\* The slot stacks.new points at the stack it added: the active slot of the
\* active object.
AssignedByNew == <<Top, hist.objects[Top].stacks_active + 1>>

\* stacks.new added a scene stack and returned.
StackAdded ==
    /\ hist.op = "new"
    /\ ~hist.raised
    /\ Len(scene.stacks) = Len(hist.stacks) + 1

\* C24: adding a scene stack changes what no other slot resolves to: apart
\* from the slot stacks.new assigns, a slot that resolved to stack j resolves
\* to stack j afterwards, and a slot that resolved to "None" still resolves to
\* "None".
C24_AddKeepsOtherSlots ==
    StackAdded =>
        \A p \in BackupSlots \ {AssignedByNew} :
            p[2] \in DOMAIN hist.objects[p[1]].stacks_c =>
                Resolved(scene.stacks,
                         objects[p[1]].stacks_c[p[2]].stack_index) =
                Resolved(hist.stacks,
                         hist.objects[p[1]].stacks_c[p[2]].stack_index)


-------------------------------------------------------------------------------
(* Claims about the operator list of a scene stack *)

\* Every entry of the list carries its position and the active index is a
\* position of the list, 0 when the list is empty.
IndexIsPosition(stack) ==
    \A i \in DOMAIN stack.ops : stack.ops[i].index = i - 1

ActiveIsValid(stack) ==
    IF stack.ops = <<>> THEN stack.ops_active = 0
    ELSE stack.ops_active \in 0..(Len(stack.ops) - 1)

OpsEdited == hist.op \in {"ops_slot_add", "ops_slot_remove", "slot_ops_move"}

\* C25: after an entry was added to, removed from or moved in the operator
\* list of a scene stack, the index of every entry of the list equals its
\* position, so ops[op.index] is that entry, and ops_active is a position of
\* the list, or 0 when the list is empty.
C25_OpsIndexIsPosition ==
    OpsEdited =>
        /\ IndexIsPosition(scene.stacks[hist.k + 1])
        /\ ActiveIsValid(scene.stacks[hist.k + 1])

-------------------------------------------------------------------------------
(* Claims about the handlers that clear live_update while they work *)

ClearsLiveUpdate == hist.op \in {"new", "duplicate", "rename", "preset_load"}

\* C26: a handler that clears live_update of the active object while it edits
\* the catalog (stacks.new, stacks.duplicate, stacks.preset_load, the rename
\* of a stack) leaves the flag as it was before the handler, on every way out
\* of it, an abandoned preset load included.
C26_LiveUpdatePutBack ==
    ClearsLiveUpdate =>
        objects[Ctx].live_update = hist.objects[Ctx].live_update

-------------------------------------------------------------------------------
(* Claims about stacks.apply and stacks.clear without a reference *)

\* The handler op ran for an active object that had no reference.
WithoutReference(op) ==
    hist.op = op /\ hist.objects[hist.context.object].ob_reference = NoObject

\* The slot lists and live_update of the object the handler ran for, and the
\* objects of bpy.data, are those of before the handler.
NothingChanged ==
    /\ objects[hist.context.object].stacks =
            hist.objects[hist.context.object].stacks
    /\ objects[hist.context.object].stacks_c =
            hist.objects[hist.context.object].stacks_c
    /\ objects[hist.context.object].live_update =
            hist.objects[hist.context.object].live_update
    /\ {o \in ObjIds : objects[o].exists} =
            {o \in ObjIds : hist.objects[o].exists}

\* C27: stacks.apply and stacks.clear on an object without a reference (its
\* stacks never ran, or it is the exposed reference) fail and leave the slot
\* lists and live_update of the object and the set of objects as they were.
C27_NoReferenceNoChange ==
    (WithoutReference("apply") \/ WithoutReference("clear")) =>
        hist.raised /\ NothingChanged

-------------------------------------------------------------------------------
(* Claims about a SELECT slot without a stored selection *)

\* stacks.update ran for an object with live_update on whose first slot is an
\* enabled SELECT slot with the default snapshot "f-f-t|[]-[]-[]".
RanEmptySelection ==
    /\ hist.op = "update"
    /\ hist.objects[hist.context.object].live_update
    /\ hist.objects[hist.context.object].stacks_c # <<>>
    /\ hist.objects[hist.context.object].stacks_c[1].enabled
    /\ hist.objects[hist.context.object].stacks_c[1].type = "SELECT"
    /\ hist.objects[hist.context.object].stacks_c[1].selection =
            Snapshot(<<>>, <<>>, <<>>)

\* C28: the execution of a SELECT slot whose snapshot holds no vertex, edge
\* or face index ends without an error and selects nothing, and the run ends
\* with restore: live_update is on and the mode is the one of before.
C28_EmptySelectionRuns ==
    RanEmptySelection =>
        /\ ~hist.raised
        /\ meshes[objects[hist.context.object].data].select = NoneSelected
        /\ objects[hist.context.object].live_update
        /\ context.mode = hist.context.mode

-------------------------------------------------------------------------------
(* Claims about the seeds of the RANDOM curve *)

\* A handler ran the stacks of Top.
RunEntered ==
    /\ hist.op \in RunHandlers
    /\ log.events # <<>>
    /\ log.events[1].ev = "enter"

\* The entries on the curve RANDOM that the run interpolated, each with the
\* repeat count of its slot: <<entry, repeat>>.
RandomEntries ==
    {<<scene.stacks[objects[Top].stacks_c[i].stack_index + 1].ops[k],
       objects[Top].stacks_c[i].repeat>> :
        <<i, k>> \in
            {p \in (DOMAIN objects[Top].stacks_c) \X (1..MaxEntries) :
                /\ SlotRuns(scene.stacks, objects[Top].stacks_c[p[1]])
                /\ objects[Top].stacks_c[p[1]].type = "STACK"
                /\ p[2] \in DOMAIN
                        scene.stacks[objects[Top].stacks_c[p[1]].stack_index + 1].ops
                /\ LET op == scene.stacks[
                                objects[Top].stacks_c[p[1]].stack_index + 1].ops[p[2]]
                   IN  /\ EntryRuns(op)
                       /\ op.interp_type = "RANDOM"
                       /\ Interpolated(op.operator_type, opfunc(op))}}

\* The draws STACKS_PropValues makes for an entry repeated `repeat` times:
\* <<iteration, item of the propdict, channel>>.
DrawsOf(op, repeat) ==
    {d \in (0..(repeat - 1))
            \X (DOMAIN INTERPOLATE[op.operator_type][opfunc(op)])
            \X (0..2) :
        d[3] < RandomDraws(op, INTERPOLATE[op.operator_type][opfunc(op)][d[2]])}

\* __call__ passes ind = i * num.
SeedOfDraw(op, d) == random_seed(op, d[1] * d[2], d[3])

\* C29: in the RANDOM interpolation of one entry, the seeds of the draws for
\* different (iteration, property, channel) are pairwise different.
C29_RandomSeedsDistinct ==
    RunEntered =>
        \A e \in RandomEntries :
            \A d1, d2 \in DrawsOf(e[1], e[2]) :
                d1 # d2 => SeedOfDraw(e[1], d1) # SeedOfDraw(e[1], d2)

-------------------------------------------------------------------------------
(* Claims about the direction of the eased values *)

\* The values STACKS_PropValues computes for item j of the propdict when the
\* direction of the entry is STRAIGHT and everything else is as in the run.
StraightValuesRun(j) ==
    [i \in 1..RepeatRun |->
        Shown(INTERPOLATE.GENERATE.SUBDIVIDE[j].src,
              STACKS_PropValues([EntryRun EXCEPT !.interpolate = "STRAIGHT"],
                                INTERPOLATE.GENERATE.SUBDIVIDE,
                                1, RepeatRun)[j].values[i])]

ReversedRun ==
    /\ UpdateEntered
    /\ EntryRun.interp_type = "BEZIER"
    /\ EntryRun.interpolate = "REVERSED"

\* C30: the eased values of the direction REVERSED are those of STRAIGHT in
\* reverse order: for every repeat count R and iteration i of 0..R-1, the
\* value of iteration i under REVERSED is the value of iteration R-1-i under
\* STRAIGHT.
C30_ReversedIsStraightBackwards ==
    ReversedRun =>
        \A j \in DOMAIN INTERPOLATE.GENERATE.SUBDIVIDE :
            \A i \in 0..(RepeatRun - 1) :
                ValuesRun(j)[i + 1] = StraightValuesRun(j)[RepeatRun - 1 - i + 1]

====
